---- MODULE Spec2Model ----
(***************************************************************************)
(* PyFResp: validated oscilloscope settings (InstrumentSettings.py), the   *)
(* Channel / Timebase / Trigger containers built from them and the         *)
(* Oscilloscope that owns the containers and dispatches to _handler.       *)
(*                                                                         *)
(* Conventions                                                             *)
(*  - a Python str is a sequence of one-character strings;                 *)
(*  - a Python float is an integer count of 1e-6 units (fixed point);      *)
(*  - a Python value of unknown type is a tagged record [t, s, n];         *)
(*  - a method is an operator from the object (a record of its fields)     *)
(*    to [self |-> the object afterwards, exc |-> the exception raised,    *)
(*    "" when none, ...].                                                  *)
(***************************************************************************)
EXTENDS Integers, Sequences, FiniteSets, TLC

(***************************************************************************)
(* Python values                                                           *)
(***************************************************************************)
\* fixed-point resolution of a float: 1.0 is Unit counts
Unit == 10^6

PyStr(s)   == [t |-> "str",   s |-> s,    n |-> 0]
PyFloat(x) == [t |-> "float", s |-> <<>>, n |-> x]
PyInt(i)   == [t |-> "int",   s |-> <<>>, n |-> i]
PyShift(k) == [t |-> "shift", s |-> <<>>, n |-> k]
None       == [t |-> "none",  s |-> <<>>, n |-> 0]
\* float("nan") / float("inf"): a float that compares equal to nothing finite
NonFinite  == [t |-> "nonfinite", s |-> <<>>, n |-> 0]

NoExc == ""

\* isinstance(value, str), isinstance(value, int), isinstance(value, float|int)
IsStr(v)    == v.t = "str"
IsInt(v)    == v.t = "int"
IsNumber(v) == v.t \in {"float", "int", "nonfinite"}

\* float(value) of an int or a float, in fixed-point counts
AsCount(v) == IF v.t = "int" THEN v.n * Unit ELSE v.n

Abs(x) == IF x < 0 THEN -x ELSE x

(***************************************************************************)
(* str methods                                                             *)
(***************************************************************************)
LowerToUpper ==
    [a |-> "A", b |-> "B", c |-> "C", d |-> "D", e |-> "E", f |-> "F",
     g |-> "G", h |-> "H", i |-> "I", j |-> "J", k |-> "K", l |-> "L",
     m |-> "M", n |-> "N", o |-> "O", p |-> "P", q |-> "Q", r |-> "R",
     s |-> "S", t |-> "T", u |-> "U", v |-> "V", w |-> "W", x |-> "X",
     y |-> "Y", z |-> "Z"]

UpperChar(c) == IF c \in DOMAIN LowerToUpper THEN LowerToUpper[c] ELSE c

\* str.upper()
Upper(s) == [k \in 1..Len(s) |-> UpperChar(s[k])]

DigitVal ==
    "0" :> 0 @@ "1" :> 1 @@ "2" :> 2 @@ "3" :> 3 @@ "4" :> 4 @@
    "5" :> 5 @@ "6" :> 6 @@ "7" :> 7 @@ "8" :> 8 @@ "9" :> 9

IsDigit(c) == c \in DOMAIN DigitVal

AllDigits(s) == \A k \in 1..Len(s) : IsDigit(s[k])

\* int(s) of a string of decimal digits
RECURSIVE DigitsToNat(_)
DigitsToNat(s) ==
    IF s = <<>> THEN 0
    ELSE DigitsToNat(SubSeq(s, 1, Len(s) - 1)) * 10 + DigitVal[s[Len(s)]]

\* first position of character c in s, 0 when absent
IndexOf(s, c) ==
    IF \E k \in 1..Len(s) : s[k] = c
    THEN CHOOSE k \in 1..Len(s) : s[k] = c /\ \A q \in 1..(k - 1) : s[q] /= c
    ELSE 0

Tail0(s, k) == SubSeq(s, k + 1, Len(s))

StripSign(s) ==
    IF s /= <<>> /\ s[1] \in {"+", "-"} THEN Tail0(s, 1) ELSE s

SignOf(s) == IF s /= <<>> /\ s[1] = "-" THEN -1 ELSE 1

\* m * 10^e in counts, rounded half up when e < 0
Scale10(m, e) ==
    IF e >= 0 THEN m * 10^e ELSE (m + (10^(-e)) \div 2) \div 10^(-e)

\* float(s) for an upper-cased s: [sign] digits [. digits] [E [sign] digits],
\* INF / INFINITY / NAN; anything else raises ValueError.
ParseFloat(s) ==
    LET body  == StripSign(s)
        ePos  == IndexOf(body, "E")
        mant  == IF ePos = 0 THEN body ELSE SubSeq(body, 1, ePos - 1)
        expS  == IF ePos = 0 THEN <<>> ELSE Tail0(body, ePos)
        expD  == StripSign(expS)
        dPos  == IndexOf(mant, ".")
        ip    == IF dPos = 0 THEN mant ELSE SubSeq(mant, 1, dPos - 1)
        fp    == IF dPos = 0 THEN <<>> ELSE Tail0(mant, dPos)
        expOk == ePos = 0 \/ (expD /= <<>> /\ AllDigits(expD))
        manOk == AllDigits(ip) /\ AllDigits(fp) /\ Len(ip) + Len(fp) >= 1
        expV  == IF ePos = 0 THEN 0 ELSE SignOf(expS) * DigitsToNat(expD)
    IN  IF body \in {<<"I","N","F">>, <<"N","A","N">>,
                     <<"I","N","F","I","N","I","T","Y">>}
        THEN [exc |-> NoExc, val |-> NonFinite]
        ELSE IF expOk /\ manOk
        THEN [exc |-> NoExc,
              val |-> PyFloat(SignOf(s) *
                            Scale10(DigitsToNat(ip \o fp), expV - Len(fp) + 6))]
        ELSE [exc |-> "ValueError", val |-> None]

\* float(v) of any value: a number converts, a str is parsed, None raises
ToFloat(v) ==
    IF IsNumber(v) THEN [exc |-> NoExc,
                         val |-> IF v.t = "nonfinite" THEN v ELSE PyFloat(AsCount(v))]
    ELSE IF IsStr(v) THEN ParseFloat(Upper(v.s))
    ELSE [exc |-> "TypeError", val |-> None]

(***************************************************************************)
(* list indexing                                                           *)
(***************************************************************************)
\* 1-based position of Python index i in a list of length n (a negative
\* index counts from the end); 0 when list[i] raises IndexError
PyPos(n, i) ==
    IF i >= 0 /\ i < n THEN i + 1
    ELSE IF i < 0 /\ -i <= n THEN n + i + 1
    ELSE 0

\* least element of a non-empty set of integers
Least(S) == CHOOSE k \in S : \A q \in S : k <= q

(***************************************************************************)
(* InstrumentSettings.IndexedStringList                                    *)
(* fields: valid_list, last_value (per index), index (0-based), value      *)
(***************************************************************************)
\* __init__(valid_list, index=None); index is None or an int
IndexedStringList_init(valid_list, index) ==
    LET last == [k \in 1..Len(valid_list) |-> valid_list[k][1]]
        idx  == IF index = None THEN 0 ELSE index.n
        pos  == PyPos(Len(last), idx)
    IN  IF pos = 0
        THEN [self |-> None, exc |-> "IndexError"]
        ELSE [self |-> [kind |-> "IndexedStringList", valid_list |-> valid_list,
                        last_value |-> last, index |-> idx, value |-> last[pos]],
              exc |-> NoExc]

\* index setter
IndexedStringList_set_index(self, index) ==
    IF IsInt(index) /\ index.n >= 0 /\ index.n < Len(self.valid_list)
    THEN [self |-> [self EXCEPT !.index = index.n,
                                !.value = IF index.n /= self.index
                                          THEN self.last_value[index.n + 1]
                                          ELSE @],
          exc |-> NoExc]
    ELSE [self |-> self, exc |-> "Invalid index"]

\* criteria getter
IndexedStringList_criteria(self) ==
    self.valid_list[PyPos(Len(self.valid_list), self.index)]

\* value setter that stores the string as the caller spelled it
IndexedStringList_set_value_as_typed(self, value) ==
    IF ~IsStr(value) THEN [self |-> self, exc |-> "Value must be str"]
    ELSE
    LET pos   == PyPos(Len(self.valid_list), self.index)
        group == self.valid_list[pos]
    IN  IF \A k \in 1..Len(group) : Upper(value.s) /= Upper(group[k])
        THEN [self |-> self, exc |-> "Invalid value"]
        ELSE [self |-> [self EXCEPT !.value = value.s, !.last_value[pos] = value.s],
              exc |-> NoExc]

\* value setter that ignores a value that is not a str
IndexedStringList_set_value_untyped(self, value) ==
    IF ~IsStr(value) THEN [self |-> self, exc |-> NoExc]
    ELSE
    LET pos   == PyPos(Len(self.valid_list), self.index)
        group == self.valid_list[pos]
        up    == Upper(value.s)
        hits  == {k \in 1..Len(group) : up = Upper(group[k])}
    IN  IF hits = {}
        THEN [self |-> self, exc |-> "Invalid value"]
        ELSE [self |-> [self EXCEPT !.value = group[Least(hits)],
                                    !.last_value[pos] = group[Least(hits)]],
              exc |-> NoExc]

\* value setter
IndexedStringList_set_value(self, value) ==
    IF ~IsStr(value) THEN [self |-> self, exc |-> "Value must be str"]
    ELSE
    LET pos   == PyPos(Len(self.valid_list), self.index)
        group == self.valid_list[pos]
        up    == Upper(value.s)
        hits  == {k \in 1..Len(group) : up = Upper(group[k])}
    IN  IF hits = {}
        THEN [self |-> self, exc |-> "Invalid value"]
        ELSE [self |-> [self EXCEPT !.value = group[Least(hits)],
                                    !.last_value[pos] = group[Least(hits)]],
              exc |-> NoExc]

(***************************************************************************)
(* InstrumentSettings.StringList: field list, an IndexedStringList with    *)
(* one group                                                               *)
(***************************************************************************)
\* a constructor that takes the last element as the default
StringList_init_last_default(valid_list) ==
    [kind |-> "StringList",
     list |-> [IndexedStringList_init(<<valid_list>>, None).self
                 EXCEPT !.value = valid_list[Len(valid_list)],
                        !.last_value = <<valid_list[Len(valid_list)]>>]]

\* __init__(valid_list)
StringList_init(valid_list) ==
    [kind |-> "StringList", list |-> IndexedStringList_init(<<valid_list>>, None).self]

StringList_criteria(self) == IndexedStringList_criteria(self.list)

StringList_value(self) == self.list.value

\* the wrapper after its inner primitive returned r
StringList_assigned(self, r) ==
    [self |-> [self EXCEPT !.list = r.self], exc |-> r.exc]

StringList_set_value(self, value) ==
    StringList_assigned(self, IndexedStringList_set_value(self.list, value))

(***************************************************************************)
(* InstrumentSettings.IndexedFloatRange                                    *)
(* fields: range (per index <<min, max, last value>>), index, value        *)
(***************************************************************************)
Min3(r) == Least({r[1], r[2], r[3]})
Max3(r) == -Least({-r[1], -r[2], -r[3]})

\* __init__ that reads each tuple as (min, max, default)
IndexedFloatRange_init_positional(range, index) ==
    LET idx == IF index = None THEN 0 ELSE index.n
        pos == PyPos(Len(range), idx)
    IN  IF pos = 0
        THEN [self |-> None, exc |-> "IndexError"]
        ELSE [self |-> [kind |-> "IndexedFloatRange", range |-> range,
                        index |-> idx, index_is_int |-> TRUE,
                        value |-> range[pos][3]],
              exc |-> NoExc]

\* __init__(range, index=None); each r of range is (default, min, max)
IndexedFloatRange_init(range, index) ==
    LET rng == [k \in 1..Len(range) |-> <<Min3(range[k]), Max3(range[k]), range[k][1]>>]
        idx == IF index = None THEN 0 ELSE index.n
        pos == PyPos(Len(rng), idx)
    IN  IF pos = 0
        THEN [self |-> None, exc |-> "IndexError"]
        ELSE [self |-> [kind |-> "IndexedFloatRange", range |-> rng,
                        index |-> idx, index_is_int |-> TRUE,
                        value |-> rng[pos][3]],
              exc |-> NoExc]

\* _index as a number: an int index k is k, a float index is kept in the
\* index field as its count of 1e-6 (index_is_int is FALSE then)
IndexedFloatRange_index_count(self) ==
    IF self.index_is_int THEN self.index * Unit ELSE self.index

\* index setter that stores the index before it compares it
IndexedFloatRange_set_index_eager(self, index) ==
    IF ~IsInt(index) THEN [self |-> self, exc |-> "TypeError"]
    ELSE IF index.n >= 0 /\ index.n < Len(self.range)
    THEN [self |-> [self EXCEPT !.index = index.n, !.index_is_int = TRUE,
                                !.value = self.range[index.n + 1][3]],
          exc |-> NoExc]
    ELSE [self |-> [self EXCEPT !.index = index.n, !.index_is_int = TRUE],
          exc |-> "Invalid index"]

\* index setter.  There is no isinstance check: None or a str raises
\* TypeError in the comparison with 0; a float inside [0, len) is stored in
\* _index, and self._range[self._index] then raises TypeError when the
\* float differs from the old index (== compares an int and a float by
\* their numbers)
IndexedFloatRange_set_index(self, index) ==
    IF index = NonFinite THEN [self |-> self, exc |-> "Invalid index"]
    ELSE IF ~IsNumber(index) THEN [self |-> self, exc |-> "TypeError"]
    ELSE IF ~(AsCount(index) >= 0 /\ AsCount(index) < Len(self.range) * Unit)
    THEN [self |-> self, exc |-> "Invalid index"]
    ELSE IF IsInt(index)
    THEN [self |-> [self EXCEPT !.index = index.n, !.index_is_int = TRUE,
                                !.value = IF AsCount(index) /= IndexedFloatRange_index_count(self)
                                          THEN self.range[index.n + 1][3]
                                          ELSE self.value],
          exc |-> NoExc]
    ELSE [self |-> [self EXCEPT !.index = index.n, !.index_is_int = FALSE],
          exc |-> IF AsCount(index) /= IndexedFloatRange_index_count(self)
                  THEN "TypeError" ELSE NoExc]

\* criteria getter: (min, max) of the active group
IndexedFloatRange_criteria(self) ==
    LET r == self.range[PyPos(Len(self.range), self.index)]
    IN  <<r[1], r[2]>>

\* value setter that stores before it validates
IndexedFloatRange_set_value_eager(self, value) ==
    LET pos == IF self.index_is_int THEN PyPos(Len(self.range), self.index) ELSE 1
        r   == self.range[pos]
    IN  IF ~self.index_is_int \/ ~IsNumber(value)
        THEN [self |-> self, exc |-> "TypeError"]
        ELSE IF value.t /= "nonfinite"
                /\ AsCount(value) >= r[1] /\ AsCount(value) <= r[2]
        THEN [self |-> [self EXCEPT !.value = AsCount(value),
                                    !.range[pos][3] = AsCount(value)],
              exc |-> NoExc]
        ELSE [self |-> [self EXCEPT !.value = AsCount(value)],
              exc |-> "Invalid value"]

\* value setter; a nan or inf fails both comparisons or one of them
IndexedFloatRange_set_value(self, value) ==
    LET pos == IF self.index_is_int THEN PyPos(Len(self.range), self.index) ELSE 1
        r   == self.range[pos]
    IN  IF ~self.index_is_int \/ ~IsNumber(value)
        THEN [self |-> self, exc |-> "TypeError"]
        ELSE IF value.t /= "nonfinite"
                /\ AsCount(value) >= r[1] /\ AsCount(value) <= r[2]
        THEN [self |-> [self EXCEPT !.value = AsCount(value),
                                    !.range[pos][3] = AsCount(value)],
              exc |-> NoExc]
        ELSE [self |-> self, exc |-> "Invalid value"]

(***************************************************************************)
(* InstrumentSettings.FloatRange: field range, an IndexedFloatRange with   *)
(* one group                                                               *)
(***************************************************************************)
FloatRange_init(range) ==
    [kind |-> "FloatRange", range |-> IndexedFloatRange_init(<<range>>, None).self]

FloatRange_criteria(self) == IndexedFloatRange_criteria(self.range)

FloatRange_value(self) == self.range.value

\* the wrapper after its inner primitive returned r
FloatRange_assigned(self, r) ==
    [self |-> [self EXCEPT !.range = r.self], exc |-> r.exc]

FloatRange_set_value(self, value) ==
    FloatRange_assigned(self, IndexedFloatRange_set_value(self.range, value))

(***************************************************************************)
(* InstrumentSettings.IndexedFloatStringList                               *)
(* fields: valid_list (labels per index), valid_float (numbers per index), *)
(*         last_value (per index), index, value                            *)
(***************************************************************************)
\* _RELATIVE_TOL = 1.0e-6, as its reciprocal
RELATIVE_TOL_INV == 1000000

\* __init__(valid_list, index=None); each group is a list of <<label, number>>
IndexedFloatStringList_init(valid_list, index) ==
    LET labels == [k \in 1..Len(valid_list) |->
                      [q \in 1..Len(valid_list[k]) |-> valid_list[k][q][1]]]
        floats == [k \in 1..Len(valid_list) |->
                      [q \in 1..Len(valid_list[k]) |-> valid_list[k][q][2]]]
        last   == [k \in 1..Len(valid_list) |-> labels[k][1]]
        idx    == IF index = None THEN 0 ELSE index.n
        pos    == PyPos(Len(last), idx)
    IN  IF pos = 0
        THEN [self |-> None, exc |-> "IndexError"]
        ELSE [self |-> [kind |-> "IndexedFloatStringList",
                        valid_list |-> labels, valid_float |-> floats,
                        last_value |-> last, index |-> idx, value |-> last[pos]],
              exc |-> NoExc]

\* index setter
IndexedFloatStringList_set_index(self, index) ==
    IF IsInt(index) /\ index.n >= 0 /\ index.n < Len(self.valid_list)
    THEN [self |-> [self EXCEPT !.index = index.n,
                                !.value = IF index.n /= self.index
                                          THEN self.last_value[index.n + 1]
                                          ELSE @],
          exc |-> NoExc]
    ELSE [self |-> self, exc |-> "Invalid index"]

\* criteria getter
IndexedFloatStringList_criteria(self) ==
    self.valid_list[PyPos(Len(self.valid_list), self.index)]

\* an absolute tolerance of one count of 1e-6
WithinTol_absolute(value, f) == Abs(value - f) <= 1

\* abs((value-f)/f) <= _RELATIVE_TOL for f /= 0, in integer counts:
\* |value-f| * 10^6 <= |f|  iff  |value-f| <= |f| div 10^6
WithinTol(value, f) == Abs(value - f) <= Abs(f) \div RELATIVE_TOL_INV

\* the loop with the tolerance applied to a zero entry as an absolute one
FloatHits_zero_tolerant(floats, value) ==
    {k \in 1..Len(floats) :
        IF floats[k] = 0
        THEN value.t /= "nonfinite" /\ Abs(value.n) <= 1
        ELSE value.t /= "nonfinite" /\ WithinTol(value.n, floats[k])}

\* the loop over valid_float: positions whose number a float value matches
FloatHits(floats, value) ==
    {k \in 1..Len(floats) :
        IF floats[k] = 0
        THEN value.t /= "nonfinite" /\ value.n = 0
        ELSE value.t /= "nonfinite" /\ WithinTol(value.n, floats[k])}

\* value setter, numeric part (lines 346-361 and 362-378): value is a float
IFSL_match_float(self, value) ==
    LET pos  == PyPos(Len(self.valid_list), self.index)
        hits == FloatHits(self.valid_float[pos], value)
    IN  IF hits = {}
        THEN [self |-> self, exc |-> "Invalid value"]
        ELSE [self |-> [self EXCEPT !.value = self.valid_list[pos][Least(hits)]],
              exc |-> NoExc]

\* str part that tries float(value) before the labels
IFSL_match_str_number_first(self, s) ==
    LET pos   == PyPos(Len(self.valid_list), self.index)
        group == self.valid_list[pos]
        up    == Upper(s)
        hits  == {k \in 1..Len(group) : up = Upper(group[k])}
        num   == ParseFloat(up)
    IN  IF num.exc = NoExc /\ FloatHits(self.valid_float[pos], num.val) /= {}
        THEN IFSL_match_float(self, num.val)
        ELSE IF hits /= {}
        THEN [self |-> [self EXCEPT !.value = group[Least(hits)]], exc |-> NoExc]
        ELSE [self |-> self, exc |-> "Invalid value"]

\* value setter, str part: label match first, then float(value)
IFSL_match_str(self, s) ==
    LET pos   == PyPos(Len(self.valid_list), self.index)
        group == self.valid_list[pos]
        up    == Upper(s)
        hits  == {k \in 1..Len(group) : up = Upper(group[k])}
        num   == ParseFloat(up)
    IN  IF hits /= {}
        THEN [self |-> [self EXCEPT !.value = group[Least(hits)]], exc |-> NoExc]
        ELSE IF num.exc /= NoExc
        THEN [self |-> self, exc |-> num.exc]
        ELSE IFSL_match_float(self, num.val)

\* ScaleShift branch that moves one position in the direction of the shift
IFSL_shifted_one_position(self, shift) ==
    LET pos   == PyPos(Len(self.valid_list), self.index)
        group == self.valid_list[pos]
        found == {k \in 1..Len(group) : self.value = group[k]}
        moved == Least(found) + (IF shift < 0 THEN -1 ELSE 1)
    IN  IF found = {}
        THEN [exc |-> "Invalid value", label |-> <<>>]
        ELSE [exc |-> NoExc,
              label |-> group[IF moved < 1 THEN 1
                              ELSE IF moved > Len(group) THEN Len(group)
                              ELSE moved]]

\* value setter, ScaleShift part: the label the shift resolves to
IFSL_shifted(self, shift) ==
    LET pos   == PyPos(Len(self.valid_list), self.index)
        group == self.valid_list[pos]
        found == {k \in 1..Len(group) : self.value = group[k]}
        moved == Least(found) + shift
    IN  IF found = {}
        THEN [exc |-> "Invalid value", label |-> <<>>]
        ELSE [exc |-> NoExc,
              label |-> group[IF moved < 1 THEN 1
                              ELSE IF moved > Len(group) THEN Len(group)
                              ELSE moved]]

\* value setter that ignores a ScaleShift it cannot apply
IndexedFloatStringList_set_value_step_ignored(self, value) ==
    IF value.t = "shift"
    THEN LET sh == IFSL_shifted(self, value.n)
         IN  IF sh.exc /= NoExc THEN [self |-> self, exc |-> NoExc]
             ELSE IFSL_match_str(self, sh.label)
    ELSE IF IsStr(value) THEN IFSL_match_str(self, value.s)
    ELSE IF IsNumber(value)
    THEN IFSL_match_float(self, ToFloat(value).val)
    ELSE [self |-> self, exc |-> "Value must be str or float"]

\* value setter
IndexedFloatStringList_set_value(self, value) ==
    IF value.t = "shift"
    THEN LET sh == IFSL_shifted(self, value.n)
         IN  IF sh.exc /= NoExc THEN [self |-> self, exc |-> sh.exc]
             ELSE IFSL_match_str(self, sh.label)
    ELSE IF IsStr(value) THEN IFSL_match_str(self, value.s)
    ELSE IF IsNumber(value)
    THEN IFSL_match_float(self, ToFloat(value).val)
    ELSE [self |-> self, exc |-> "Value must be str or float"]

(***************************************************************************)
(* InstrumentSettings.FloatStringList: field list, an                      *)
(* IndexedFloatStringList with one group                                   *)
(***************************************************************************)
FloatStringList_init(valid_list) ==
    [kind |-> "FloatStringList",
     list |-> IndexedFloatStringList_init(<<valid_list>>, None).self]

FloatStringList_criteria(self) == IndexedFloatStringList_criteria(self.list)

FloatStringList_value(self) == self.list.value

\* the wrapper after its inner primitive returned r
FloatStringList_assigned(self, r) ==
    [self |-> [self EXCEPT !.list = r.self], exc |-> r.exc]

FloatStringList_set_value(self, value) ==
    FloatStringList_assigned(self, IndexedFloatStringList_set_value(self.list, value))

(***************************************************************************)
(* Any setting primitive, by kind                                          *)
(***************************************************************************)
IndexedKinds ==
    {"IndexedStringList", "IndexedFloatRange", "IndexedFloatStringList"}

\* the indexed object that holds the state of primitive p
Inner(p) ==
    CASE p.kind \in IndexedKinds -> p
      [] p.kind = "FloatRange"   -> p.range
      [] OTHER                   -> p.list

GroupCount(p) ==
    IF Inner(p).kind = "IndexedFloatRange"
    THEN Len(Inner(p).range) ELSE Len(Inner(p).valid_list)

\* _index is an int (only IndexedFloatRange can hold a float there)
IntIndex(p) ==
    IF Inner(p).kind = "IndexedFloatRange" THEN Inner(p).index_is_int ELSE TRUE

\* 1-based position of the active group, 0 when a float index selects none
ActivePos(p) ==
    IF IntIndex(p) THEN PyPos(GroupCount(p), Inner(p).index) ELSE 0

\* the remembered ("last") value of every index
Remembered(p) ==
    IF Inner(p).kind = "IndexedFloatRange"
    THEN [k \in 1..Len(Inner(p).range) |-> Inner(p).range[k][3]]
    ELSE Inner(p).last_value

Prim_value(p) ==
    IF Inner(p).kind = "IndexedFloatRange"
    THEN PyFloat(Inner(p).value) ELSE PyStr(Inner(p).value)

Prim_criteria(p) ==
    CASE Inner(p).kind = "IndexedStringList" ->
            [t |-> "list", s |-> IndexedStringList_criteria(Inner(p)), n |-> 0]
      [] Inner(p).kind = "IndexedFloatRange" ->
            [t |-> "tuple", s |-> IndexedFloatRange_criteria(Inner(p)), n |-> 0]
      [] OTHER ->
            [t |-> "list", s |-> IndexedFloatStringList_criteria(Inner(p)), n |-> 0]

Prim_set_value(p, v) ==
    CASE p.kind = "IndexedStringList"      -> IndexedStringList_set_value(p, v)
      [] p.kind = "StringList"             -> StringList_set_value(p, v)
      [] p.kind = "IndexedFloatRange"      -> IndexedFloatRange_set_value(p, v)
      [] p.kind = "FloatRange"             -> FloatRange_set_value(p, v)
      [] p.kind = "IndexedFloatStringList" -> IndexedFloatStringList_set_value(p, v)
      [] p.kind = "FloatStringList"        -> FloatStringList_set_value(p, v)

Prim_set_index(p, i) ==
    CASE p.kind = "IndexedStringList"      -> IndexedStringList_set_index(p, i)
      [] p.kind = "IndexedFloatRange"      -> IndexedFloatRange_set_index(p, i)
      [] p.kind = "IndexedFloatStringList" -> IndexedFloatStringList_set_index(p, i)

(***************************************************************************)
(* HandlerClass and the dispatch contract                                  *)
(***************************************************************************)
HandlerClass ==
    {"os_mode", "ch_state", "ch_visible", "ch_unit", "ch_scale", "ch_offset",
     "ch_bw", "ch_coupling", "ch_atten", "time_scale", "time_delay",
     "trigger_mode", "trigger_source", "trigger_type", "trigger_polarity",
     "trigger_level", "trigger_coupling", "trigger_noise_reject",
     "trigger_holdoff", "trigger_holdoffs"}

\* Oscilloscope._handler_read(hclass, *args): the call _handler receives
Oscilloscope_handler_read(hclass, args) ==
    [hclass |-> hclass, write |-> FALSE, args |-> args]

\* Oscilloscope._handler_write(hclass, *args): the call _handler receives
Oscilloscope_handler_write(hclass, args) ==
    [hclass |-> hclass, write |-> TRUE, args |-> args]

\* what an accessor hands back to the action that called it
Outcome(self, exc, val, issued) ==
    [self |-> self, exc |-> exc, val |-> val, calls |-> issued]

\* a getter that keeps and returns the cached value when the primitive
\* refuses the reply
ReadThrough_lenient(self, field, hclass, args, reply, r) ==
    IF reply.exc /= NoExc
    THEN Outcome(self, reply.exc, None, <<Oscilloscope_handler_read(hclass, args)>>)
    ELSE IF r.exc /= NoExc
    THEN Outcome(self, NoExc, Prim_value(self[field]),
                 <<Oscilloscope_handler_read(hclass, args)>>)
    ELSE Outcome([self EXCEPT ![field] = r.self], NoExc, Prim_value(r.self),
                 <<Oscilloscope_handler_read(hclass, args)>>)

\* the getter pattern
\*     self._x.value = self._owner._handler_read(HC.c, *args)
\*     return self._x.value
\* reply is what _handler returns or raises: [exc, val]; r is the outcome of
\* assigning reply.val to the primitive
ReadThrough(self, field, hclass, args, reply, r) ==
    IF reply.exc /= NoExc
    THEN Outcome(self, reply.exc, None, <<Oscilloscope_handler_read(hclass, args)>>)
    ELSE IF r.exc /= NoExc
    THEN Outcome(self, r.exc, None, <<Oscilloscope_handler_read(hclass, args)>>)
    ELSE Outcome([self EXCEPT ![field] = r.self], NoExc, Prim_value(r.self),
                 <<Oscilloscope_handler_read(hclass, args)>>)

\* a setter that hands the value to _handler before the primitive has
\* accepted it
WriteThrough_unchecked(self, field, hclass, args, r, reply) ==
    IF r.exc /= NoExc
    THEN Outcome(self, r.exc, None,
                 <<Oscilloscope_handler_write(hclass, Append(args, Prim_value(self[field])))>>)
    ELSE Outcome([self EXCEPT ![field] = r.self], reply.exc, None,
                 <<Oscilloscope_handler_write(hclass, Append(args, Prim_value(r.self)))>>)

\* a setter that hands _handler the value the primitive held before the
\* assignment
WriteThrough_stale(self, field, hclass, args, r, reply) ==
    IF r.exc /= NoExc
    THEN Outcome(self, r.exc, None, <<>>)
    ELSE Outcome([self EXCEPT ![field] = r.self], reply.exc, None,
                 <<Oscilloscope_handler_write(hclass, Append(args, Prim_value(self[field])))>>)

\* a setter that puts the previous value back when _handler raises
WriteThrough_rollback(self, field, hclass, args, r, reply) ==
    IF r.exc /= NoExc
    THEN Outcome(self, r.exc, None, <<>>)
    ELSE Outcome(IF reply.exc = NoExc THEN [self EXCEPT ![field] = r.self] ELSE self,
                 reply.exc, None,
                 <<Oscilloscope_handler_write(hclass, Append(args, Prim_value(r.self)))>>)

\* the setter pattern
\*     self._x.value = v
\*     self._owner._handler_write(HC.c, *args, self._x.value)
\* r is the outcome of assigning v to the primitive
WriteThrough(self, field, hclass, args, r, reply) ==
    IF r.exc /= NoExc
    THEN Outcome(self, r.exc, None, <<>>)
    ELSE Outcome([self EXCEPT ![field] = r.self], reply.exc, None,
                 <<Oscilloscope_handler_write(hclass, Append(args, Prim_value(r.self)))>>)

(***************************************************************************)
(* OscilloscopeChannel.Channel                                             *)
(* fields: name, num, unit, atten, scale, offset, bandwidth, coupling,     *)
(*         state, visible; its properties are the actions Channel_*_get    *)
(*         and Channel_*_set of the instrument specification               *)
(***************************************************************************)
\* str(n) for n >= 0
RECURSIVE NatToDigits(_)
NatToDigits(n) ==
    IF n < 10 THEN <<CHOOSE c \in DOMAIN DigitVal : DigitVal[c] = n>>
    ELSE Append(NatToDigits(n \div 10),
                CHOOSE c \in DOMAIN DigitVal : DigitVal[c] = n % 10)

\* number of digits that end s
RECURSIVE TrailingDigits(_)
TrailingDigits(s) ==
    IF s = <<>> \/ ~IsDigit(s[Len(s)]) THEN 0
    ELSE 1 + TrailingDigits(SubSeq(s, 1, Len(s) - 1))

\* re.search(r"(\d+)$", name): int(m[1]) or None
Channel_num_of(name) ==
    IF TrailingDigits(name) = 0 THEN None
    ELSE PyInt(DigitsToNat(Tail0(name, Len(name) - TrailingDigits(name))))

Channel_init(name, units, attens, scales, offsets, bandwidths, couplings) ==
    [name      |-> name,
     num       |-> Channel_num_of(name),
     unit      |-> StringList_init(units),
     scale     |-> IndexedFloatStringList_init(scales, None).self,
     offset    |-> IndexedFloatRange_init(offsets, None).self,
     bandwidth |-> StringList_init(bandwidths),
     coupling  |-> StringList_init(couplings),
     atten     |-> StringList_init(attens),
     state     |-> StringList_init(<<<<"O", "F", "F">>, <<"O", "N">>>>),
     visible   |-> StringList_init(<<<<"O", "N">>, <<"O", "F", "F">>>>)]

(***************************************************************************)
(* OscilloscopeTimebase.Timebase: fields scale, delay                      *)
(***************************************************************************)
Timebase_init(scales, delays) ==
    [scale |-> FloatStringList_init(scales),
     delay |-> IndexedFloatRange_init(delays, None).self]

(***************************************************************************)
(* OscilloscopeTrigger.Trigger                                             *)
(* fields: source, type, polarity, level, coupling, noise_reject           *)
(***************************************************************************)
Trigger_init(sources, types, polarities, levels, couplings, noise_rejects) ==
    [source       |-> StringList_init(sources),
     type         |-> StringList_init(types),
     polarity     |-> StringList_init(polarities),
     level        |-> FloatRange_init(levels),
     coupling     |-> StringList_init(couplings),
     noise_reject |-> StringList_init(noise_rejects)]

(***************************************************************************)
(* Oscilloscope: fields channels, timebase, trigger                        *)
(***************************************************************************)
Oscilloscope_init == [channels |-> <<>>, timebase |-> None, trigger |-> None]

Oscilloscope_add_channel(self, channel) ==
    [self EXCEPT !.channels = Append(self.channels, channel)]

Oscilloscope_set_timebase(self, timebase) == [self EXCEPT !.timebase = timebase]

Oscilloscope_set_trigger(self, trigger) == [self EXCEPT !.trigger = trigger]

\* number of characters of s before its first digit
RECURSIVE LeadingNonDigits(_)
LeadingNonDigits(s) ==
    IF s = <<>> \/ IsDigit(s[1]) THEN 0
    ELSE 1 + LeadingNonDigits(Tail0(s, 1))

\* re.search(r"^(?:CH?|CHAN(?:NEL)?)?([0-9]+)$", name, re.IGNORECASE):
\* the digits of group 1, <<>> when there is no match
ChannelNameDigits(name) ==
    LET k      == LeadingNonDigits(name)
        prefix == Upper(SubSeq(name, 1, k))
        digits == Tail0(name, k)
    IN  IF /\ prefix \in {<<>>, <<"C">>, <<"C", "H">>, <<"C", "H", "A", "N">>, <<"C", "H", "A", "N", "N", "E", "L">>}
           /\ digits /= <<>>
           /\ AllDigits(digits)
        THEN digits ELSE <<>>

\* __find_channel(name): PyInt(0-based index) or None
Oscilloscope_find_channel(self, name) ==
    IF IsInt(name)
    THEN IF name.n >= 1 /\ name.n <= Len(self.channels)
         THEN PyInt(name.n - 1) ELSE None
    ELSE IF IsStr(name)
    THEN IF ChannelNameDigits(name.s) /= <<>>
         THEN LET n == DigitsToNat(ChannelNameDigits(name.s)) - 1
              IN  IF n >= 1 /\ n <= Len(self.channels) THEN PyInt(n) ELSE None
         ELSE None
    ELSE None

\* a reference to the k-th channel added (k from 1)
ChannelRef(k) == [t |-> "channel", s |-> <<>>, n |-> k]

\* channel(ch): self.__channels[index] when index is not None, else None
Oscilloscope_channel(self, ch) ==
    LET index == Oscilloscope_find_channel(self, ch)
    IN  IF index = None THEN [exc |-> NoExc, val |-> None]
        ELSE IF PyPos(Len(self.channels), index.n) = 0
        THEN [exc |-> "IndexError", val |-> None]
        ELSE [exc |-> NoExc, val |-> ChannelRef(PyPos(Len(self.channels), index.n))]

\* channels(): the channel names in order
Oscilloscope_channels(self) ==
    [k \in 1..Len(self.channels) |-> self.channels[k].name]

Oscilloscope_num_channels(self) == Len(self.channels)

(***************************************************************************)
(* State                                                                   *)
(***************************************************************************)
VARIABLES
    prim,      \* the setting primitive under test
    assigned,  \* history: per index, the value last successfully assigned
               \* to prim under that index (the group's default before any)
    scope,     \* the Oscilloscope: channels, timebase, trigger
    op,        \* the last call made by the application
    ret,       \* its outcome: [exc |-> exception raised or "", val |-> result]
    calls,     \* the _handler calls issued during the last call, in order
    nops       \* number of calls made so far

vars == <<prim, assigned, scope, op, ret, calls, nops>>

NoOp  == [name |-> "", arg |-> None]
NoRet == [exc |-> NoExc, val |-> None]

(***************************************************************************)
(* Primitives on their own: constructor arguments and inputs               *)
(* (InstrumentSettings.py __main__, tests A-F)                             *)
(***************************************************************************)
\* the last group has two labels that differ only by case
ISL_LISTS ==
    <<<<<<"D", "C">>, <<"A", "C">>, <<"G", "N", "D">>>>,
      <<<<"1", "X">>, <<"1", "0", "x">>>>,
      <<<<"O", "f", "f">>, <<"o", "n">>, <<"O", "N">>>>>>

\* (default, min, max) in counts of 1e-6: test D
IFR_RANGES == <<<<2500000, 0, 5000000>>, <<0, -10000, 100000>>, <<0, -100000, 100000>>>>

\* <<label, number>> in counts of 1e-6: after test E
IFSL_LISTS ==
    <<<< <<<<"1", "m">>, 1000>>, <<<<"2", "m">>, 2000>>, <<<<"5", "m">>, 5000>>, <<<<"0">>, 0>> >>,
      << <<<<"5", "0", "0", "m">>, 500000>>, <<<<"1">>, 1000000>>, <<<<"5">>, 5000000>>, <<<<"0">>, 0>> >>,
      << <<<<"1">>, 5000000>>, <<<<"5">>, 1000000>>, <<<<"2">>, 2000000>> >>>>

CtorIndexArgs == {None, PyInt(-1), PyInt(0), PyInt(1), PyInt(2), PyInt(3)}

IndexInputs ==
    {PyInt(k) : k \in -1..3}
    \cup {PyFloat(0), PyFloat(Unit), PyFloat(5 * Unit), NonFinite, None, PyStr(<<"1">>)}

ISL_Inputs ==
    {PyStr(<<"D", "C">>), PyStr(<<"1", "X">>), PyStr(<<"O", "n">>), PyStr(<<"A", "C">>), PyStr(<<"a", "c">>), PyStr(<<"G", "n", "d">>), PyStr(<<"1", "0", "X">>), PyStr(<<"1", "x">>), PyStr(<<"3", "0">>), PyStr(<<>>), PyFloat(5 * Unit), None}

IFR_Inputs ==
    {PyFloat(x) : x \in {0, 2510000, 50000, -110000, 5000000, 5000001,
                         -100000, -100001, -10000, 100000}}
    \cup {PyInt(3), PyInt(6), PyStr(<<"1">>), None, NonFinite}

IFSL_Inputs ==
    {PyStr(<<"2", "m">>), PyStr(<<"2", "M">>), PyStr(<<"5", ".", "0", "e", "-", "3">>), PyStr(<<"0">>), PyStr(<<"1">>), PyStr(<<"a", "b", "c">>), PyStr(<<"5">>), PyStr(<<"n", "a", "n">>), PyStr(<<"5", "0", "0", "M">>)}
    \cup {PyFloat(x) : x \in {0, 1, 2000, 10000, 4999994, 4999995, 4999998,
                              5000000, 5000005, 5000006}}
    \cup {PyInt(1), PyInt(5), None}
    \cup {PyShift(k) : k \in {-10, -1, 1, 10}}

PrimInputs(p) ==
    CASE Inner(p).kind = "IndexedStringList" -> ISL_Inputs
      [] Inner(p).kind = "IndexedFloatRange" -> IFR_Inputs
      [] OTHER                               -> IFSL_Inputs

Constructed(results) == {r.self : r \in {q \in results : q.exc = NoExc}}

PrimInit ==
    /\ \/ prim \in Constructed({IndexedStringList_init(ISL_LISTS, i) : i \in CtorIndexArgs})
       \/ prim \in Constructed({IndexedFloatRange_init(IFR_RANGES, i) : i \in CtorIndexArgs})
       \/ prim \in Constructed({IndexedFloatStringList_init(IFSL_LISTS, i) : i \in CtorIndexArgs})
       \/ prim \in {StringList_init(ISL_LISTS[k]) : k \in 1..Len(ISL_LISTS)}
       \/ prim \in {FloatRange_init(IFR_RANGES[k]) : k \in 1..Len(IFR_RANGES)}
       \/ prim \in {FloatStringList_init(IFSL_LISTS[k]) : k \in 1..Len(IFSL_LISTS)}
    /\ assigned = Remembered(prim)
    /\ scope = <<>>
    /\ op = NoOp
    /\ ret = NoRet
    /\ calls = <<>>
    /\ nops = 0

\* p.value = v
PrimAssign(v) ==
    LET r == Prim_set_value(prim, v)
    IN  /\ prim' = r.self
        /\ op' = [name |-> "set_value", arg |-> v]
        /\ ret' = [exc |-> r.exc, val |-> None]
        /\ assigned' = IF r.exc = NoExc
                       THEN [assigned EXCEPT ![ActivePos(prim)] = Inner(r.self).value]
                       ELSE assigned
        /\ UNCHANGED <<scope, calls, nops>>

PrimSetValue == \E v \in PrimInputs(prim) : PrimAssign(v)

\* p.index = i
PrimSetIndex ==
    /\ prim.kind \in IndexedKinds
    /\ \E i \in IndexInputs :
        LET r == Prim_set_index(prim, i)
        IN  /\ prim' = r.self
            /\ op' = [name |-> "set_index", arg |-> i]
            /\ ret' = [exc |-> r.exc, val |-> None]
            /\ UNCHANGED <<assigned, scope, calls, nops>>

\* p.value
PrimGetValue ==
    /\ op' = [name |-> "get_value", arg |-> None]
    /\ ret' = [exc |-> NoExc, val |-> Prim_value(prim)]
    /\ UNCHANGED <<prim, assigned, scope, calls, nops>>

\* p.criteria; self._range[self._index] raises TypeError on a float index
PrimGetCriteria ==
    /\ op' = [name |-> "get_criteria", arg |-> None]
    /\ ret' = IF IntIndex(prim)
              THEN [exc |-> NoExc, val |-> Prim_criteria(prim)]
              ELSE [exc |-> "TypeError", val |-> None]
    /\ UNCHANGED <<prim, assigned, scope, calls, nops>>

\* p.value = p.value
PrimReassign ==
    LET r == Prim_set_value(prim, Prim_value(prim))
    IN  /\ prim' = r.self
        /\ op' = [name |-> "reassign", arg |-> Prim_value(prim)]
        /\ ret' = [exc |-> r.exc, val |-> None]
        /\ assigned' = IF r.exc = NoExc
                       THEN [assigned EXCEPT ![ActivePos(prim)] = Inner(r.self).value]
                       ELSE assigned
        /\ UNCHANGED <<scope, calls, nops>>

PrimNext ==
    PrimSetValue \/ PrimSetIndex \/ PrimGetValue \/ PrimGetCriteria \/ PrimReassign

SpecPrim == PrimInit /\ [][PrimNext]_vars

(***************************************************************************)
(* A labeled numeric choice whose caller writes into the list that         *)
(* criteria returns (SpecStep).  criteria returns                          *)
(* self._valid_list[self._index] itself, not a copy (lines 299-301), so    *)
(* p.criteria[k] = label changes the labels of the active group.           *)
(***************************************************************************)
MaxEdits == 1

EditLabels == {<<"x">>}

StepInputs ==
    {PyShift(k) : k \in {-10, -1, 1, 10}} \cup {PyStr(<<"5">>), PyStr(<<"x">>)}

\* primitive p with its indexed object replaced
WithInner(p, inner) ==
    IF p.kind \in IndexedKinds THEN inner ELSE [p EXCEPT !.list = inner]

StepInit ==
    /\ \/ prim \in Constructed({IndexedFloatStringList_init(IFSL_LISTS, i) : i \in CtorIndexArgs})
       \/ prim \in {FloatStringList_init(IFSL_LISTS[k]) : k \in 1..Len(IFSL_LISTS)}
    /\ assigned = Remembered(prim)
    /\ scope = <<>>
    /\ op = NoOp
    /\ ret = NoRet
    /\ calls = <<>>
    /\ nops = 0

\* p.criteria[k] = label
CriteriaEdit ==
    /\ nops < MaxEdits
    /\ \E k \in 1..Len(Inner(prim).valid_list[ActivePos(prim)]),
          label \in EditLabels :
          /\ prim' = WithInner(prim, [Inner(prim) EXCEPT
                                        !.valid_list[ActivePos(prim)][k] = label])
          /\ op' = [name |-> "edit_criteria", arg |-> PyStr(label)]
    /\ ret' = NoRet
    /\ nops' = nops + 1
    /\ UNCHANGED <<assigned, scope, calls>>

\* p.value = v for a ScaleShift or a label v
StepSetValue == \E v \in StepInputs : PrimAssign(v)

StepNext == StepSetValue \/ PrimSetIndex \/ CriteriaEdit

SpecStep == StepInit /\ [][StepNext]_vars

(***************************************************************************)
(* An oscilloscope as a driver builds it (SDS2000.__init__, lines 109-136) *)
(* from the valid-value lists it passes to the containers                  *)
(***************************************************************************)
UNITS  == <<<<"V">>, <<"A">>>>
ATTENS == <<<<"1", "0", "X">>, <<"1", "X">>>>   \* indexes SCALES and OFFSETS
SCALES ==
    <<<< <<<<"5", "M">>, 5000>>, <<<<"1", "0", "0">>, 100000000>> >>,       \* 10X
      << <<<<"5", "0", "0", "U">>, 500>>, <<<<"5", "M">>, 5000>> >>>>            \* 1X
OFFSETS == <<<<0, -10000000, 10000000>>, <<0, -10000000, 10000000>>>>
BWL  == <<<<"F", "U", "L", "L">>, <<"2", "0", "M">>>>
COUP == <<<<"D", "C">>, <<"A", "C">>>>

TIME_SCALES == << <<<<"1", "U">>, 1>>, <<<<"1", "M">>, 1000>>, <<<<"1">>, 1000000>> >>  \* indexes TIME_DELAYS
TIME_DELAYS == <<<<0, -1, 1>>, <<0, -1000, 1000>>, <<0, -1000000, 1000000>>>>

TRIG_TYPES == <<<<"E", "D", "G", "E">>>>
TRIG_SLOPE == <<<<"R", "I", "S", "I", "N", "G">>, <<"F", "A", "L", "L", "I", "N", "G">>>>
TRIG_COUP  == <<<<"D", "C">>, <<"A", "C">>>>
TRIG_NREJ  == <<<<"O", "F", "F">>, <<"O", "N">>>>
TRIG_LEVEL == <<0, -4100000, 4100000>>

\* the oscilloscope after the first n passes of the loop of lines 113-124
RECURSIVE WithChannels(_)
WithChannels(n) ==
    IF n = 0 THEN Oscilloscope_init
    ELSE Oscilloscope_add_channel(
             WithChannels(n - 1),
             Channel_init(<<"C", "H">> \o NatToDigits(n),
                          UNITS, ATTENS, SCALES, OFFSETS, BWL, COUP))

\* the constructed oscilloscope with n channels
Scope_init(n) ==
    LET os == WithChannels(n)
    IN  Oscilloscope_set_trigger(
            Oscilloscope_set_timebase(os, Timebase_init(TIME_SCALES, TIME_DELAYS)),
            Trigger_init(Oscilloscope_channels(os) \o <<<<"L", "I", "N", "E">>>>,
                         TRIG_TYPES, TRIG_SLOPE, TRIG_LEVEL, TRIG_COUP, TRIG_NREJ))

(***************************************************************************)
(* Channel lookup (SpecLookup)                                             *)
(***************************************************************************)
MaxChannels == 4

\* spellings of the accepted prefixes, and some that are not accepted
GoodPrefixes ==
    {<<>>, <<"C">>, <<"c">>, <<"C", "H">>, <<"c", "h">>, <<"C", "h">>, <<"C", "H", "A", "N">>, <<"c", "h", "a", "n">>, <<"C", "H", "A", "N", "N", "E", "L">>, <<"c", "H", "a", "N", "n", "E", "l">>}
BadPrefixes == {<<"X">>, <<"C", "H", "A">>, <<"H">>, <<"C", "H", "A", "N", "N", "E", "L", "S">>, <<"-">>, <<"C", " ">>}

\* the identifiers the lookup accepts for channel n
IdsFor(n) ==
    {PyInt(n)} \cup (IF n < 0 THEN {} ELSE {PyStr(q \o NatToDigits(n)) : q \in GoodPrefixes})

MalformedIds ==
    {PyStr(q \o NatToDigits(n)) : q \in BadPrefixes, n \in 0..(MaxChannels + 1)}
    \cup {PyStr(q) : q \in GoodPrefixes \cup {<<"C", "H", "1", "X">>, <<"1", ".", "0">>}}
    \cup {None, PyFloat(Unit)}

LookupIds ==
    UNION {IdsFor(n) : n \in -1..(MaxChannels + 2)} \cup MalformedIds

LookupInit ==
    /\ scope = Scope_init(0)
    /\ prim = None
    /\ assigned = <<>>
    /\ op = NoOp
    /\ ret = NoRet
    /\ calls = <<>>
    /\ nops = 0

\* one more pass of the constructor's loop: _add_channel(Channel("CH<i>", ...))
AddChannel ==
    /\ Len(scope.channels) < MaxChannels
    /\ scope' = Oscilloscope_add_channel(
                    scope,
                    Channel_init(<<"C", "H">> \o NatToDigits(Len(scope.channels) + 1),
                                 UNITS, ATTENS, SCALES, OFFSETS, BWL, COUP))
    /\ op' = NoOp
    /\ ret' = NoRet
    /\ UNCHANGED <<prim, assigned, calls, nops>>

\* oscope.channel(id)
Lookup ==
    \E id \in LookupIds :
        /\ op' = [name |-> "channel", arg |-> id]
        /\ ret' = Oscilloscope_channel(scope, id)
        /\ UNCHANGED <<prim, assigned, scope, calls, nops>>

\* oscope.channels()
ChannelNames ==
    /\ op' = [name |-> "channels", arg |-> None]
    /\ ret' = [exc |-> NoExc,
               val |-> [t |-> "list", s |-> Oscilloscope_channels(scope), n |-> 0]]
    /\ UNCHANGED <<prim, assigned, scope, calls, nops>>

\* oscope.num_channels()
NumChannels ==
    /\ op' = [name |-> "num_channels", arg |-> None]
    /\ ret' = [exc |-> NoExc, val |-> PyInt(Oscilloscope_num_channels(scope))]
    /\ UNCHANGED <<prim, assigned, scope, calls, nops>>

LookupNext == AddChannel \/ Lookup \/ ChannelNames \/ NumChannels

SpecLookup == LookupInit /\ [][LookupNext]_vars

(***************************************************************************)
(* The instrument and its application (Spec)                               *)
(* Each step is one property access by the application: the accessor of    *)
(* Channel, Timebase or Trigger runs to its end.  What _handler returns or *)
(* raises during the access (reply) is an input of the step.  c is the     *)
(* Channel channel(k); tb and tr are oscope.timebase and oscope.trigger.    *)
(***************************************************************************)
MaxOps == 2         \* accesses made by the application in one run
ScopeChannels == 2  \* passes of the constructor's channel loop

\* what the instrument link does to a _handler call: deliver or raise
LinkError == [exc |-> "OSError", val |-> None]
Delivered(v) == [exc |-> NoExc, val |-> v]
WriteReplies == {Delivered(None), LinkError}
Replies(S) == {Delivered(v) : v \in S} \cup {LinkError}

\* the list _handler returns for trigger_holdoffs
HOLDOFFS == [t |-> "list", s |-> <<<<"O", "F", "F">>, <<"L", "A", "S", "T", "_", "T", "R", "I", "G">>, <<"A", "C", "Q", "_", "S", "T", "A", "R", "T">>, <<"T", "I", "M", "E">>, <<"E", "V", "E", "N", "T", "S">>>>, n |-> 0]

Init ==
    /\ scope = Scope_init(ScopeChannels)
    /\ prim = None
    /\ assigned = <<>>
    /\ op = NoOp
    /\ ret = NoRet
    /\ calls = <<>>
    /\ nops = 0

\* a channel access on channels whose offset primitives share the lists of
\* one range object
ChannelAccess_shared_offsets(name, field, k, arg, reply, out) ==
    /\ nops < MaxOps
    /\ scope' = [scope EXCEPT !.channels =
                    [j \in 1..Len(scope.channels) |->
                        IF j = k THEN out.self
                        ELSE [scope.channels[j] EXCEPT !.offset = out.self.offset]]]
    /\ op' = [name |-> name, obj |-> "channel", field |-> field, ch |-> k,
              arg |-> arg, reply |-> reply]
    /\ ret' = [exc |-> out.exc, val |-> out.val]
    /\ calls' = out.calls
    /\ nops' = nops + 1
    /\ UNCHANGED <<prim, assigned>>

\* the application reads or assigns property field of channel(k);
\* out is what the accessor did
ChannelAccess(name, field, k, arg, reply, out) ==
    /\ nops < MaxOps
    /\ scope' = [scope EXCEPT !.channels = [scope.channels EXCEPT ![k] = out.self]]
    /\ op' = [name |-> name, obj |-> "channel", field |-> field, ch |-> k,
              arg |-> arg, reply |-> reply]
    /\ ret' = [exc |-> out.exc, val |-> out.val]
    /\ calls' = out.calls
    /\ nops' = nops + 1
    /\ UNCHANGED <<prim, assigned>>

\* the same for oscope.timebase and oscope.trigger
PartAccess(name, obj, field, arg, reply, out) ==
    /\ nops < MaxOps
    /\ scope' = [scope EXCEPT ![obj] = out.self]
    /\ op' = [name |-> name, obj |-> obj, field |-> field, ch |-> 0,
              arg |-> arg, reply |-> reply]
    /\ ret' = [exc |-> out.exc, val |-> out.val]
    /\ calls' = out.calls
    /\ nops' = nops + 1
    /\ UNCHANGED <<prim, assigned>>

\* float() of the reply, then the getter pattern on _offset
Channel_offset_converted(self, reply, f) ==
    IF reply.exc = NoExc /\ f.exc /= NoExc
    THEN Outcome(self, f.exc, None,
                 <<Oscilloscope_handler_read("ch_offset", <<self.num>>)>>)
    ELSE ReadThrough(self, "offset", "ch_offset", <<self.num>>,
                     [exc |-> reply.exc, val |-> f.val],
                     IndexedFloatRange_set_value(self.offset, f.val))

\* channel(k).state
Channel_state_get ==
    \E k \in 1..Len(scope.channels),
       reply \in Replies({PyStr(<<"O", "N">>), PyStr(<<"1">>), None}) :
        ChannelAccess("get", "state", k, None, reply,
            ReadThrough(scope.channels[k], "state", "ch_state", <<scope.channels[k].num>>, reply,
                        StringList_set_value(scope.channels[k].state, reply.val)))
\* channel(k).state = v
Channel_state_set ==
    \E k \in 1..Len(scope.channels),
       v \in {PyStr(<<"o", "f", "f">>), PyStr(<<"X">>)},
       reply \in WriteReplies :
        ChannelAccess("set", "state", k, v, reply,
            WriteThrough(scope.channels[k], "state", "ch_state", <<scope.channels[k].num>>,
                         StringList_set_value(scope.channels[k].state, v), reply))

\* channel(k).visible: the property named visible is built by @state.setter
\* (line 95), so it keeps the getter of state and takes lines 96-98 as its
\* setter; the getter of lines 89-92 is dropped when the name is rebound
Channel_visible_get ==
    \E k \in 1..Len(scope.channels),
       reply \in Replies({PyStr(<<"O", "F", "F">>), PyStr(<<"1">>)}) :
        ChannelAccess("get", "visible", k, None, reply,
            ReadThrough(scope.channels[k], "state", "ch_state", <<scope.channels[k].num>>, reply,
                        StringList_set_value(scope.channels[k].state, reply.val)))
\* channel(k).visible = v
Channel_visible_set ==
    \E k \in 1..Len(scope.channels),
       v \in {PyStr(<<"o", "f", "f">>), None},
       reply \in WriteReplies :
        ChannelAccess("set", "visible", k, v, reply,
            WriteThrough(scope.channels[k], "visible", "ch_visible", <<scope.channels[k].num>>,
                         StringList_set_value(scope.channels[k].visible, v), reply))

\* channel(k).unit
Channel_unit_get ==
    \E k \in 1..Len(scope.channels),
       reply \in Replies({PyStr(<<"A">>), PyStr(<<>>)}) :
        ChannelAccess("get", "unit", k, None, reply,
            ReadThrough(scope.channels[k], "unit", "ch_unit", <<scope.channels[k].num>>, reply,
                        StringList_set_value(scope.channels[k].unit, reply.val)))
\* channel(k).unit = v
Channel_unit_set ==
    \E k \in 1..Len(scope.channels),
       v \in {PyStr(<<"a">>), PyStr(<<"W">>)},
       reply \in WriteReplies :
        ChannelAccess("set", "unit", k, v, reply,
            WriteThrough(scope.channels[k], "unit", "ch_unit", <<scope.channels[k].num>>,
                         StringList_set_value(scope.channels[k].unit, v), reply))

\* channel(k).scale
Channel_scale_get ==
    \E k \in 1..Len(scope.channels),
       reply \in Replies({PyStr(<<"1", ".", "0", "0", "E", "+", "0", "2">>), PyStr(<<"5", ".", "0", "0", "E", "-", "0", "4">>), PyStr(<<"E", "R", "R">>), None}) :
        ChannelAccess("get", "scale", k, None, reply,
            ReadThrough(scope.channels[k], "scale", "ch_scale", <<scope.channels[k].num>>, reply,
                        IndexedFloatStringList_set_value(scope.channels[k].scale, reply.val)))
\* channel(k).scale = v
Channel_scale_set ==
    \E k \in 1..Len(scope.channels),
       v \in {PyStr(<<"1", "0", "0">>), PyStr(<<"5", "0", "0", "U">>), PyFloat(5000), PyInt(7),
              PyShift(1)},
       reply \in WriteReplies :
        ChannelAccess("set", "scale", k, v, reply,
            WriteThrough(scope.channels[k], "scale", "ch_scale", <<scope.channels[k].num>>,
                         IndexedFloatStringList_set_value(scope.channels[k].scale, v), reply))

\* channel(k).offset:
\*     self._offset.value = float(self._owner._handler_read(HC.ch_offset, num))
Channel_offset_get ==
    \E k \in 1..Len(scope.channels),
       reply \in Replies({PyStr(<<"-", "1", ".", "5">>), PyStr(<<"2", ".", "0", "0", "E", "+", "0", "1">>), PyStr(<<"E", "R", "R">>), None}) :
        ChannelAccess("get", "offset", k, None, reply,
            Channel_offset_converted(scope.channels[k], reply, ToFloat(reply.val)))
\* channel(k).offset = v
Channel_offset_set ==
    \E k \in 1..Len(scope.channels),
       v \in {PyFloat(1500000), PyInt(-10), PyFloat(10000001)},
       reply \in WriteReplies :
        ChannelAccess("set", "offset", k, v, reply,
            WriteThrough(scope.channels[k], "offset", "ch_offset", <<scope.channels[k].num>>,
                         IndexedFloatRange_set_value(scope.channels[k].offset, v), reply))

\* channel(k).bandwidth
Channel_bandwidth_get ==
    \E k \in 1..Len(scope.channels),
       reply \in Replies({PyStr(<<"2", "0", "M">>), PyStr(<<"O", "F", "F">>)}) :
        ChannelAccess("get", "bandwidth", k, None, reply,
            ReadThrough(scope.channels[k], "bandwidth", "ch_bw", <<scope.channels[k].num>>, reply,
                        StringList_set_value(scope.channels[k].bandwidth, reply.val)))
\* channel(k).bandwidth = v
Channel_bandwidth_set ==
    \E k \in 1..Len(scope.channels),
       v \in {PyStr(<<"2", "0", "m">>), PyStr(<<"2", "5", "M">>)},
       reply \in WriteReplies :
        ChannelAccess("set", "bandwidth", k, v, reply,
            WriteThrough(scope.channels[k], "bandwidth", "ch_bw", <<scope.channels[k].num>>,
                         StringList_set_value(scope.channels[k].bandwidth, v), reply))

\* channel(k).coupling
Channel_coupling_get ==
    \E k \in 1..Len(scope.channels),
       reply \in Replies({PyStr(<<"A", "C">>), PyStr(<<"G", "N", "D">>)}) :
        ChannelAccess("get", "coupling", k, None, reply,
            ReadThrough(scope.channels[k], "coupling", "ch_coupling", <<scope.channels[k].num>>, reply,
                        StringList_set_value(scope.channels[k].coupling, reply.val)))
\* channel(k).coupling = v
Channel_coupling_set ==
    \E k \in 1..Len(scope.channels),
       v \in {PyStr(<<"a", "c">>), PyStr(<<"G", "N", "D">>)},
       reply \in WriteReplies :
        ChannelAccess("set", "coupling", k, v, reply,
            WriteThrough(scope.channels[k], "coupling", "ch_coupling", <<scope.channels[k].num>>,
                         StringList_set_value(scope.channels[k].coupling, v), reply))

\* channel(k).atten: return self._atten.value, no _handler call
Channel_atten_get ==
    \E k \in 1..Len(scope.channels) :
        ChannelAccess("get", "atten", k, None, None,
            Outcome(scope.channels[k], NoExc, Prim_value(scope.channels[k].atten), <<>>))
\* channel(k).atten = v
Channel_atten_set ==
    \E k \in 1..Len(scope.channels),
       v \in {PyStr(<<"1", "0", "X">>), PyStr(<<"1", "x">>), PyStr(<<"2", "X">>)},
       reply \in WriteReplies :
        ChannelAccess("set", "atten", k, v, reply,
            WriteThrough(scope.channels[k], "atten", "ch_atten", <<scope.channels[k].num>>,
                         StringList_set_value(scope.channels[k].atten, v), reply))

\* timebase.scale
Timebase_scale_get ==
    \E reply \in Replies({PyStr(<<"1", ".", "0", "0", "E", "-", "0", "3">>), PyStr(<<"3", ".", "0", "0", "E", "+", "0", "0">>)}) :
        PartAccess("get", "timebase", "scale", None, reply,
            ReadThrough(scope.timebase, "scale", "time_scale", <<>>, reply,
                        FloatStringList_set_value(scope.timebase.scale, reply.val)))
\* timebase.scale = v
Timebase_scale_set ==
    \E v \in {PyStr(<<"1", "M">>), PyFloat(1), PyStr(<<"3">>)},
       reply \in WriteReplies :
        PartAccess("set", "timebase", "scale", v, reply,
            WriteThrough(scope.timebase, "scale", "time_scale", <<>>,
                         FloatStringList_set_value(scope.timebase.scale, v), reply))

\* timebase.delay
Timebase_delay_get ==
    \E reply \in Replies({PyStr(<<"0", ".", "0", "0", "E", "+", "0", "0">>), PyFloat(-1), PyFloat(5), None}) :
        PartAccess("get", "timebase", "delay", None, reply,
            ReadThrough(scope.timebase, "delay", "time_delay", <<>>, reply,
                        IndexedFloatRange_set_value(scope.timebase.delay, reply.val)))
\* timebase.delay = v
Timebase_delay_set ==
    \E v \in {PyFloat(1), PyFloat(2)},
       reply \in WriteReplies :
        PartAccess("set", "timebase", "delay", v, reply,
            WriteThrough(scope.timebase, "delay", "time_delay", <<>>,
                         IndexedFloatRange_set_value(scope.timebase.delay, v), reply))

\* trigger.noise_reject: return self._noise_reject.value, no _handler call
Trigger_noise_reject_get ==
    PartAccess("get", "trigger", "noise_reject", None, None,
        Outcome(scope.trigger, NoExc, Prim_value(scope.trigger.noise_reject), <<>>))
\* trigger.noise_reject = v
Trigger_noise_reject_set ==
    \E v \in {PyStr(<<"o", "n">>), PyStr(<<"X">>)},
       reply \in WriteReplies :
        PartAccess("set", "trigger", "noise_reject", v, reply,
            WriteThrough(scope.trigger, "noise_reject", "trigger_noise_reject", <<>>,
                         StringList_set_value(scope.trigger.noise_reject, v), reply))

\* trigger.coupling: return self._coupling.value, no _handler call
Trigger_coupling_get ==
    PartAccess("get", "trigger", "coupling", None, None,
        Outcome(scope.trigger, NoExc, Prim_value(scope.trigger.coupling), <<>>))
\* trigger.coupling = v
Trigger_coupling_set ==
    \E v \in {PyStr(<<"a", "c">>), PyStr(<<"H", "F">>)},
       reply \in WriteReplies :
        PartAccess("set", "trigger", "coupling", v, reply,
            WriteThrough(scope.trigger, "coupling", "trigger_coupling", <<>>,
                         StringList_set_value(scope.trigger.coupling, v), reply))

\* trigger.source: return self._source.value, no _handler call
Trigger_source_get ==
    PartAccess("get", "trigger", "source", None, None,
        Outcome(scope.trigger, NoExc, Prim_value(scope.trigger.source), <<>>))
\* trigger.source = v
Trigger_source_set ==
    \E v \in {PyStr(<<"C", "H", "2">>), PyStr(<<"l", "i", "n", "e">>), PyStr(<<"C", "H", "9">>)},
       reply \in WriteReplies :
        PartAccess("set", "trigger", "source", v, reply,
            WriteThrough(scope.trigger, "source", "trigger_source", <<>>,
                         StringList_set_value(scope.trigger.source, v), reply))

\* trigger.type: return self._type.value, no _handler call
Trigger_type_get ==
    PartAccess("get", "trigger", "type", None, None,
        Outcome(scope.trigger, NoExc, Prim_value(scope.trigger.type), <<>>))
\* trigger.type = v
Trigger_type_set ==
    \E v \in {PyStr(<<"e", "d", "g", "e">>), PyStr(<<"P", "U", "L", "S", "E">>)},
       reply \in WriteReplies :
        PartAccess("set", "trigger", "type", v, reply,
            WriteThrough(scope.trigger, "type", "trigger_type", <<>>,
                         StringList_set_value(scope.trigger.type, v), reply))

\* trigger.polarity: return self._polarity.value, no _handler call
Trigger_polarity_get ==
    PartAccess("get", "trigger", "polarity", None, None,
        Outcome(scope.trigger, NoExc, Prim_value(scope.trigger.polarity), <<>>))
\* trigger.polarity = v
Trigger_polarity_set ==
    \E v \in {PyStr(<<"f", "a", "l", "l", "i", "n", "g">>), PyStr(<<"B", "O", "T", "H">>)},
       reply \in WriteReplies :
        PartAccess("set", "trigger", "polarity", v, reply,
            WriteThrough(scope.trigger, "polarity", "trigger_polarity", <<>>,
                         StringList_set_value(scope.trigger.polarity, v), reply))

\* trigger.level: return self._level.value, no _handler call
Trigger_level_get ==
    PartAccess("get", "trigger", "level", None, None,
        Outcome(scope.trigger, NoExc, Prim_value(scope.trigger.level), <<>>))
\* trigger.level = v
Trigger_level_set ==
    \E v \in {PyFloat(1500000), PyInt(-4), PyFloat(4100001)},
       reply \in WriteReplies :
        PartAccess("set", "trigger", "level", v, reply,
            WriteThrough(scope.trigger, "level", "trigger_level", <<>>,
                         FloatRange_set_value(scope.trigger.level, v), reply))

\* trigger.holdoffs: return self._owner._handler_read(HC.trigger_holdoffs)
Trigger_holdoffs_get ==
    \E reply \in Replies({HOLDOFFS}) :
        PartAccess("get", "trigger", "holdoffs", None, reply,
            Outcome(scope.trigger, reply.exc, reply.val,
                    <<Oscilloscope_handler_read("trigger_holdoffs", <<>>)>>))
\* trigger.holdoff: return self._owner._handler_read(HC.trigger_holdoff)
Trigger_holdoff_get ==
    \E reply \in Replies({PyStr(<<"O", "F", "F">>)}) :
        PartAccess("get", "trigger", "holdoff", None, reply,
            Outcome(scope.trigger, reply.exc, reply.val,
                    <<Oscilloscope_handler_read("trigger_holdoff", <<>>)>>))
\* trigger.holdoff = v with the value validated as a label
Trigger_holdoff_set_validated ==
    \E v \in {PyStr(<<"O", "F", "F">>), PyFloat(1000)},
       reply \in WriteReplies :
        PartAccess("set", "trigger", "holdoff", v, reply,
            IF IsStr(v)
            THEN Outcome(scope.trigger, reply.exc, None,
                         <<Oscilloscope_handler_write("trigger_holdoff", <<v>>)>>)
            ELSE Outcome(scope.trigger, "Value must be str", None, <<>>))

\* trigger.holdoff = v: self._owner._handler_write(HC.trigger_holdoff, holdoff)
Trigger_holdoff_set ==
    \E v \in {PyStr(<<"O", "F", "F">>), PyFloat(1000)},
       reply \in WriteReplies :
        PartAccess("set", "trigger", "holdoff", v, reply,
            Outcome(scope.trigger, reply.exc, None,
                    <<Oscilloscope_handler_write("trigger_holdoff", <<v>>)>>))

Next ==
    \/ Channel_state_get
    \/ Channel_state_set
    \/ Channel_visible_get
    \/ Channel_visible_set
    \/ Channel_unit_get
    \/ Channel_unit_set
    \/ Channel_scale_get
    \/ Channel_scale_set
    \/ Channel_offset_get
    \/ Channel_offset_set
    \/ Channel_bandwidth_get
    \/ Channel_bandwidth_set
    \/ Channel_coupling_get
    \/ Channel_coupling_set
    \/ Channel_atten_get
    \/ Channel_atten_set
    \/ Timebase_scale_get
    \/ Timebase_scale_set
    \/ Timebase_delay_get
    \/ Timebase_delay_set
    \/ Trigger_noise_reject_get
    \/ Trigger_noise_reject_set
    \/ Trigger_coupling_get
    \/ Trigger_coupling_set
    \/ Trigger_source_get
    \/ Trigger_source_set
    \/ Trigger_type_get
    \/ Trigger_type_set
    \/ Trigger_polarity_get
    \/ Trigger_polarity_set
    \/ Trigger_level_get
    \/ Trigger_level_set
    \/ Trigger_holdoffs_get
    \/ Trigger_holdoff_get
    \/ Trigger_holdoff_set

Spec == Init /\ [][Next]_vars

(***************************************************************************)
(* Oscilloscope.reset and SDS2000.reset (SpecReset)                        *)
(* hw is what the instrument reports: one record per channel giving the    *)
(* reply to the read of each HandlerClass member.  The lines of calls are  *)
(* the _handler reads, with "*RST" and "*OPC?" written as reads or writes  *)
(* of their own.                                                           *)
(***************************************************************************)
RST_WRITE == Oscilloscope_handler_write("*RST", <<>>)
OPC_QUERY == Oscilloscope_handler_read("*OPC?", <<>>)

\* the properties Oscilloscope.reset reads on each channel, in its order
RESET_READS == <<"state", "visible", "unit", "scale", "offset", "bandwidth", "coupling">>

\* the getter of Channel property name, answered by hw.  The property
\* visible has the getter of state (see Channel_visible_get)
Channel_get(self, name, hw) ==
    CASE name \in {"state", "visible"} ->
            ReadThrough(self, "state", "ch_state", <<self.num>>, Delivered(hw.ch_state),
                        StringList_set_value(self.state, hw.ch_state))
      [] name = "unit" ->
            ReadThrough(self, "unit", "ch_unit", <<self.num>>, Delivered(hw.ch_unit),
                        StringList_set_value(self.unit, hw.ch_unit))
      [] name = "scale" ->
            ReadThrough(self, "scale", "ch_scale", <<self.num>>, Delivered(hw.ch_scale),
                        IndexedFloatStringList_set_value(self.scale, hw.ch_scale))
      [] name = "offset" ->
            Channel_offset_converted(self, Delivered(hw.ch_offset), ToFloat(hw.ch_offset))
      [] name = "bandwidth" ->
            ReadThrough(self, "bandwidth", "ch_bw", <<self.num>>, Delivered(hw.ch_bw),
                        StringList_set_value(self.bandwidth, hw.ch_bw))
      [] OTHER ->
            ReadThrough(self, "coupling", "ch_coupling", <<self.num>>, Delivered(hw.ch_coupling),
                        StringList_set_value(self.coupling, hw.ch_coupling))

\* the outcome acc of the calls made so far, followed by a call of outcome r
Then(acc, r) == Outcome(r.self, r.exc, None, acc.calls \o r.calls)

\* the reads names of one pass of the loop of Oscilloscope.reset on channel
\* acc.self, then is_operation_complete(); the first read that raises ends it
RECURSIVE Channel_refresh(_, _, _)
Channel_refresh(acc, names, hw) ==
    IF acc.exc /= NoExc THEN acc
    ELSE IF names = <<>> THEN Outcome(acc.self, NoExc, None, Append(acc.calls, OPC_QUERY))
    ELSE Channel_refresh(Then(acc, Channel_get(acc.self, Head(names), hw)), Tail(names), hw)

\* channel i of os replaced by the outcome r of its refresh
Refreshed(acc, i, r) ==
    Outcome([acc.self EXCEPT !.channels[i] = r.self], r.exc, None, r.calls)

\* Oscilloscope.reset from channel i on: for i in range(Nch)
RECURSIVE Oscilloscope_reset(_, _, _)
Oscilloscope_reset(acc, i, hw) ==
    IF acc.exc /= NoExc \/ i > Len(acc.self.channels) THEN acc
    ELSE Oscilloscope_reset(
             Refreshed(acc, i, Channel_refresh(Outcome(acc.self.channels[i], NoExc, None, acc.calls),
                                               RESET_READS, hw[i])),
             i + 1, hw)

\* SDS2000.reset: self.write("*RST"), then super().reset(); w is what the
\* link does with "*RST"
SDS2000_reset(os, hw, w) ==
    IF w.exc /= NoExc THEN Outcome(os, w.exc, None, <<RST_WRITE>>)
    ELSE Oscilloscope_reset(Outcome(os, NoExc, None, <<RST_WRITE, OPC_QUERY>>), 1, hw)

\* what one channel of the instrument may report
Hardware ==
    {[ch_state |-> PyStr(<<"O", "N">>), ch_visible |-> PyStr(<<"O", "F", "F">>),
      ch_unit |-> PyStr(<<"A">>), ch_scale |-> PyStr(<<"1", ".", "0", "0", "E", "+", "0", "2">>),
      ch_offset |-> PyStr(<<"-", "1", ".", "5">>), ch_bw |-> PyStr(<<"2", "0", "M">>),
      ch_coupling |-> PyStr(<<"A", "C">>)],
     [ch_state |-> PyStr(<<"O", "F", "F">>), ch_visible |-> PyStr(<<"O", "N">>),
      ch_unit |-> PyStr(<<"V">>), ch_scale |-> PyStr(<<"5", ".", "0", "0", "E", "-", "0", "3">>),
      ch_offset |-> PyStr(<<"0", ".", "5">>), ch_bw |-> PyStr(<<"F", "U", "L", "L">>),
      ch_coupling |-> PyStr(<<"D", "C">>)],
     [ch_state |-> PyStr(<<"O", "N">>), ch_visible |-> PyStr(<<"O", "N">>),
      ch_unit |-> PyStr(<<"V">>), ch_scale |-> PyStr(<<"5", "M">>),
      ch_offset |-> PyStr(<<"0">>), ch_bw |-> PyStr(<<"2", "0", "M">>),
      ch_coupling |-> PyStr(<<"D", "C">>)],
     [ch_state |-> PyStr(<<"O", "F", "F">>), ch_visible |-> PyStr(<<"O", "F", "F">>),
      ch_unit |-> PyStr(<<"A">>), ch_scale |-> PyStr(<<"E", "R", "R">>),
      ch_offset |-> PyStr(<<"0">>), ch_bw |-> PyStr(<<"F", "U", "L", "L">>),
      ch_coupling |-> PyStr(<<"A", "C">>)]}

ResetInit == Init

\* oscope.reset()
Reset ==
    /\ nops < MaxOps
    /\ \E hw \in [1..Len(scope.channels) -> Hardware], w \in WriteReplies :
        LET r == SDS2000_reset(scope, hw, w)
        IN  /\ scope' = r.self
            /\ op' = [name |-> "reset", hw |-> hw, wire |-> w]
            /\ ret' = [exc |-> r.exc, val |-> None]
            /\ calls' = r.calls
    /\ nops' = nops + 1
    /\ UNCHANGED <<prim, assigned>>

SpecReset == ResetInit /\ [][Reset]_vars

(***************************************************************************)
(* SDS2000._handler and the commands it issues (SpecHandler)               *)
(* A command is [head, num, arg, query]: the SCPI header, the channel      *)
(* number formatted into it (None for the other headers), the argument     *)
(* appended after a blank (None when there is none) and whether "?" was    *)
(* appended.  wire is what self.write / self.query do with the command:    *)
(* [exc, val], one element per command issued.                             *)
(***************************************************************************)
\* the header each branch of _handler passes to __handler_cmd
CHANNEL_CMD ==
    [ch_state |-> ":SWIT", ch_visible |-> ":VIS", ch_unit |-> ":UNIT",
     ch_scale |-> ":SCAL", ch_offset |-> ":OFFS", ch_bw |-> ":BWL",
     ch_coupling |-> ":COUP"]

PART_CMD ==
    [time_scale |-> ":TIM:SCAL", time_delay |-> ":TIM:DEL",
     trigger_mode |-> ":TRIG:MODE", trigger_type |-> ":TRIG:TYPE",
     trigger_source |-> ":TRIG:EDGE:SOUR", trigger_polarity |-> ":TRIG:EDGE:SLOP",
     trigger_level |-> ":TRIG:EDGE:LEV", trigger_coupling |-> ":TRIG:EDGE:COUP",
     trigger_noise_reject |-> ":TRIG:EDGE:NREJ"]

Command(head, num, arg, query) ==
    [head |-> head, num |-> num, arg |-> arg, query |-> query]

\* what _handler hands back: it raised exc or returned val, after sending sent
Handled(exc, val, sent) == [exc |-> exc, val |-> val, sent |-> sent]

\* the operation-complete query
OPC == Command("*OPC", None, None, TRUE)

\* the link raises while the operation-complete query is under way
OpcError == [exc |-> "OSError", val |-> OPC]

\* write(cmd, wait) with wait=False: the command alone
SDS2000_write_nowait(cmd, w) ==
    Handled(IF w = OpcError THEN NoExc ELSE w.exc, None, <<cmd>>)

\* write(cmd, wait=True): super().write(cmd), then is_operation_complete(),
\* which queries "*OPC?"; w is what the link does (the result of
\* super().write and the reply to "*OPC?" are both dropped)
SDS2000_write(cmd, w) ==
    IF w.exc /= NoExc /\ w /= OpcError
    THEN Handled(w.exc, None, <<cmd>>)
    ELSE Handled(w.exc, None, <<cmd, OPC>>)

\* __handler_cmd(write, cmd, arg, args, argn); w is what the link does
SDS2000_handler_cmd(write, head, num, arg, w) ==
    IF write
    THEN SDS2000_write(Command(head, num, arg, FALSE), w)
    ELSE Handled(w.exc, IF w.exc = NoExc THEN w.val ELSE None,
                 <<Command(head, num, None, TRUE)>>)

\* two calls of __handler_cmd one after the other
SDS2000_then(first, second) ==
    IF first.exc /= NoExc THEN first
    ELSE Handled(second.exc, second.val, first.sent \o second.sent)

\* a holdoff handler that sends the type command without asking for the
\* current type, and reads the duration whatever the type
SDS2000_process_holdoff_blind(write, args, wire) ==
    IF write
    THEN IF Len(args) < 1 THEN Handled("IndexError", None, <<>>)
         ELSE SDS2000_then(
                SDS2000_then(
                  SDS2000_handler_cmd(FALSE, ":TRIG:EDGE:HOLD", None, None, wire[1]),
                  SDS2000_handler_cmd(TRUE,
                      IF IsInt(args[1]) THEN ":TRIG:EDGE:HOLD EVEN" ELSE ":TRIG:EDGE:HOLD TIME",
                      None, None, wire[2])),
                SDS2000_handler_cmd(TRUE,
                    IF IsInt(args[1]) THEN ":TRIG:EDGE:HLDEV" ELSE ":TRIG:EDGE:HLDT",
                    None, args[1], wire[2]))
    ELSE SDS2000_then(
           SDS2000_handler_cmd(FALSE, ":TRIG:EDGE:HOLD", None, None, wire[1]),
           SDS2000_handler_cmd(FALSE, ":TRIG:EDGE:HLDT", None, None, wire[2]))

\* __process_holdoff(write, args)
SDS2000_process_holdoff(write, args, wire) ==
    IF write
    THEN IF Len(args) < 1 THEN Handled("IndexError", None, <<>>)
         ELSE LET holdoff == args[1]
                  hu == IF IsStr(holdoff) THEN Upper(holdoff.s) ELSE <<>>
                  mode == SDS2000_handler_cmd(FALSE, ":TRIG:EDGE:HOLD", None, None, wire[1])
              IN  IF IsStr(holdoff)
                  THEN IF hu \in {<<"L","A","S","T","_","T","R","I","G">>,
                                  <<"A","C","Q","_","S","T","A","R","T">>}
                       THEN SDS2000_handler_cmd(TRUE, ":TRIG:EDGE:HST", None, PyStr(hu), wire[1])
                       ELSE IF hu \in {<<"O","F","F">>, <<"T","I","M","E">>,
                                       <<"E","V","E","N">>, <<"E","V","E","N","T","S">>}
                       THEN SDS2000_handler_cmd(TRUE, ":TRIG:EDGE:HOLD {hu}", None, None, wire[1])
                       ELSE Handled(NoExc, None, <<>>)
                  ELSE IF holdoff = None
                  THEN SDS2000_handler_cmd(TRUE, ":TRIG:EDGE:HOLD OFF", None, None, wire[1])
                  ELSE IF IsInt(holdoff)
                  THEN SDS2000_then(
                         IF mode.exc = NoExc /\ mode.val /= PyStr(<<"E","V","E","N","t","s">>)
                         THEN SDS2000_then(mode,
                                SDS2000_handler_cmd(TRUE, ":TRIG:EDGE:HOLD EVEN", None, None, wire[2]))
                         ELSE mode,
                         SDS2000_handler_cmd(TRUE, ":TRIG:EDGE:HLDEV", None, holdoff, wire[2]))
                  ELSE IF holdoff.t = "float"
                  THEN SDS2000_then(
                         IF mode.exc = NoExc /\ mode.val /= PyStr(<<"T","I","M","E">>)
                         THEN SDS2000_then(mode,
                                SDS2000_handler_cmd(TRUE, ":TRIG:EDGE:HOLD TIME", None, None, wire[2]))
                         ELSE mode,
                         SDS2000_handler_cmd(TRUE, ":TRIG:EDGE:HLDT", None, holdoff, wire[2]))
                  ELSE Handled(NoExc, None, <<>>)
    ELSE LET mode == SDS2000_handler_cmd(FALSE, ":TRIG:EDGE:HOLD", None, None, wire[1])
         IN  IF mode.exc /= NoExc THEN mode
             ELSE IF mode.val = PyStr(<<"E","V","E","N","t","s">>)
             THEN SDS2000_then(mode,
                    SDS2000_handler_cmd(FALSE, ":TRIG:EDGE:HLDEV", None, None, wire[2]))
             ELSE IF mode.val = PyStr(<<"T","I","M","E">>)
             THEN SDS2000_then(mode,
                    SDS2000_handler_cmd(FALSE, ":TRIG:EDGE:HLDT", None, None, wire[2]))
             ELSE Handled(NoExc, PyStr(<<"O","F","F">>), mode.sent)

\* _handler(hclass, write, *args): the if / elif chain over HandlerClass
SDS2000_handler(hclass, write, args, wire) ==
    IF hclass = "os_mode" THEN Handled(NoExc, None, <<>>)
    ELSE IF hclass \in DOMAIN CHANNEL_CMD
    THEN IF Len(args) < (IF write THEN 2 ELSE 1)
         THEN Handled("IndexError", None, <<>>)
         ELSE SDS2000_handler_cmd(write, CHANNEL_CMD[hclass], args[1],
                                  IF write THEN args[2] ELSE None, wire[1])
    ELSE IF hclass = "ch_atten"
    THEN IF Len(args) < (IF write THEN 2 ELSE 1)
         THEN Handled("IndexError", None, <<>>)
         ELSE IF write
         THEN SDS2000_handler_cmd(TRUE, ":PROB VAL,", args[1], args[2], wire[1])
         ELSE SDS2000_handler_cmd(FALSE, ":PROB?", args[1], None, wire[1])
    ELSE IF hclass \in DOMAIN PART_CMD
    THEN IF write /\ Len(args) < 1
         THEN Handled("IndexError", None, <<>>)
         ELSE SDS2000_handler_cmd(write, PART_CMD[hclass], None,
                                  IF write THEN args[1] ELSE None, wire[1])
    ELSE IF hclass = "trigger_holdoff"
    THEN SDS2000_process_holdoff(write, args, wire)
    ELSE IF hclass = "trigger_holdoffs"
    THEN Handled(NoExc, HOLDOFFS, <<>>)
    ELSE Handled("Unhandled handler", None, <<>>)

\* values that are no member of HandlerClass
NotHandlerClass == {"ch.unit", "none"}

HandlerArgs ==
    {<<>>, <<PyInt(1)>>, <<PyInt(2), PyStr(<<"O", "N">>)>>, <<PyStr(<<"o", "f", "f">>)>>,
     <<PyStr(<<"a", "c", "q", "_", "s", "t", "a", "r", "t">>)>>, <<PyStr(<<"5", "0", "n">>)>>, <<PyFloat(1000)>>, <<PyInt(5)>>, <<None>>}

\* what the link does with the first and with the second command
HandlerWires ==
    {<<Delivered(PyStr(<<"O", "N">>)), Delivered(PyStr(<<"O", "N">>))>>,
     <<Delivered(PyStr(<<"T", "I", "M", "E">>)), Delivered(PyStr(<<"1", "E", "-", "6">>))>>,
     <<Delivered(PyStr(<<"E", "V", "E", "N", "t", "s">>)), Delivered(PyStr(<<"4", "2">>))>>,
     <<Delivered(None), Delivered(None)>>,
     <<OpcError, Delivered(None)>>,
     <<Delivered(PyStr(<<"O", "F", "F">>)), OpcError>>,
     <<LinkError, LinkError>>}

HandlerInit ==
    /\ scope = <<>>
    /\ prim = None
    /\ assigned = <<>>
    /\ op = NoOp
    /\ ret = NoRet
    /\ calls = <<>>
    /\ nops = 0

\* self._handler(hclass, write, *args)
HandlerCall ==
    \E hclass \in HandlerClass \cup NotHandlerClass, write \in BOOLEAN,
       args \in HandlerArgs, wire \in HandlerWires :
        LET h == SDS2000_handler(hclass, write, args, wire)
        IN  /\ op' = [name |-> "handler", hclass |-> hclass, write |-> write,
                      args |-> args, wire |-> wire]
            /\ ret' = [exc |-> h.exc, val |-> h.val]
            /\ calls' = h.sent
            /\ UNCHANGED <<prim, assigned, scope, nops>>

SpecHandler == HandlerInit /\ [][HandlerCall]_vars

(***************************************************************************)
(* SDS2000.get_measure and SDS2000.set_measure (SpecMeasure)               *)
(***************************************************************************)
\* the test "not isinstance(line, int) and line>=1 and line<=12" of both
\* methods: "raise" when it is true, "TypeError" when the comparison of a
\* str or None with 1 raises, "pass" when it is false
SDS2000_line_test(line) ==
    IF IsInt(line) THEN "pass"
    ELSE IF line.t /= "float" THEN "TypeError"
    ELSE IF AsCount(line) >= Unit /\ AsCount(line) <= 12 * Unit THEN "raise"
    ELSE "pass"

\* __get_source(source)
SDS2000_get_source(source) ==
    IF source = None THEN None
    ELSE IF IsInt(source) /\ source.n >= 1 /\ source.n <= 4
    THEN PyStr(<<"C">> \o NatToDigits(source.n))
    ELSE None

\* __is_valid_sources(s, s1, s2, invs2)
SDS2000_is_valid_sources(s, s1, s2, invs2) ==
    LET b_s  == s /= None
        b_s1 == s1 /= None
        b_s2 == IF invs2 THEN ~(s2 /= None) ELSE s2 /= None
    IN  (b_s /= b_s1) /\ b_s2

\* set_measure(line, type, source, source1, source2); is_dual is False
SDS2000_set_measure(line, source, source1, source2) ==
    IF SDS2000_line_test(line) = "raise" THEN Handled("Invalid line", None, <<>>)
    ELSE IF SDS2000_line_test(line) = "TypeError" THEN Handled("TypeError", None, <<>>)
    ELSE IF ~SDS2000_is_valid_sources(SDS2000_get_source(source),
                                      SDS2000_get_source(source1),
                                      SDS2000_get_source(source2), TRUE)
    THEN Handled("Invalid single source measurement specified", None, <<>>)
    ELSE Handled(NoExc, None, <<>>)

\* get_measure(line); w is what the link does with the query
SDS2000_get_measure(line, w) ==
    IF SDS2000_line_test(line) = "raise" THEN Handled("Invalid line", None, <<>>)
    ELSE IF SDS2000_line_test(line) = "TypeError" THEN Handled("TypeError", None, <<>>)
    ELSE SDS2000_handler_cmd(FALSE, ":MEAS:ADV:P:VAL", line, None, w)

MeasureLines ==
    {PyInt(k) : k \in {-1, 0, 1, 12, 13}}
    \cup {PyFloat(5 * Unit), PyFloat(500000), PyFloat(13 * Unit), PyStr(<<"3">>), None}

MeasureSources == {None, PyInt(1), PyInt(5)}

MeasureInit == HandlerInit

\* self.get_measure(line)
GetMeasure ==
    \E line \in MeasureLines,
       w \in Replies({PyStr(<<"1", ".", "0", "0", "E", "+", "0", "0">>), None}) :
        LET h == SDS2000_get_measure(line, w)
        IN  /\ op' = [name |-> "get_measure", line |-> line, wire |-> w]
            /\ ret' = [exc |-> h.exc, val |-> h.val]
            /\ calls' = h.sent
            /\ UNCHANGED <<prim, assigned, scope, nops>>

\* self.set_measure(line, type, source, source1, source2)
SetMeasure ==
    \E line \in MeasureLines, source \in MeasureSources,
       source1 \in MeasureSources, source2 \in {None, PyInt(2)} :
        LET h == SDS2000_set_measure(line, source, source1, source2)
        IN  /\ op' = [name |-> "set_measure", line |-> line,
                      sources |-> <<source, source1, source2>>]
            /\ ret' = [exc |-> h.exc, val |-> h.val]
            /\ calls' = h.sent
            /\ UNCHANGED <<prim, assigned, scope, nops>>

MeasureNext == GetMeasure \/ SetMeasure

SpecMeasure == MeasureInit /\ [][MeasureNext]_vars

(***************************************************************************)
(* SocketInstrument.SocketInstrument (SpecSocket)                          *)
(* fields: connected_socket (None, or a socket that is "unconnected" or    *)
(*         "connected"), connected_resource, and the class counter         *)
(*         num_instr_attached                                              *)
(***************************************************************************)
MaxCalls == 3   \* calls made on the instrument in one run

\* a socket object, connected to its peer or not
Socket(connected) == [t |-> "socket", s |-> <<>>, n |-> IF connected THEN 1 ELSE 0]

Letters == DOMAIN LowerToUpper \cup {LowerToUpper[c] : c \in DOMAIN LowerToUpper}

\* last position of the prefix [a-zA-Z]+:// of s, 0 when s has none
SchemeEnd(s) ==
    LET ends == {i \in 4..Len(s) :
                    /\ SubSeq(s, i - 2, i) = <<":", "/", "/">>
                    /\ \A k \in 1..(i - 3) : s[k] \in Letters}
    IN  IF ends = {} THEN 0 ELSE Least(ends)

\* _extract_addr_port(resource): the match of
\*     ^(?:[a-zA-Z]+://)?([0-9]{1,3}\.[0-9]{1,3}\.[0-9]{1,3}\.[0-9]{1,3}):([0-9]{1,5})/?$
\* as the tuple (addr, port), and the tuple (None, None) when there is none
SocketInstrument_extract_addr_port(resource) ==
    LET first == SchemeEnd(resource) + 1
        last  == IF Len(resource) >= first /\ resource[Len(resource)] = "/"
                 THEN Len(resource) - 1 ELSE Len(resource)
        core  == SubSeq(resource, first, last)
        dots  == {k \in 1..Len(core) : core[k] = "."}
        colon == {k \in 1..Len(core) : core[k] = ":"}
        marks == dots \cup colon \cup {0, Len(core) + 1}
        after(k) == Least({j \in marks : j > k})
        m     == /\ Cardinality(dots) = 3
                 /\ Cardinality(colon) = 1
                 /\ \A d \in dots : \A c \in colon : d < c
                 /\ \A k \in 1..Len(core) : k \in marks \/ IsDigit(core[k])
                 /\ \A k \in marks \ {Len(core) + 1} :
                      /\ after(k) - k - 1 >= 1
                      /\ after(k) - k - 1 <= IF after(k) = Len(core) + 1 THEN 5 ELSE 3
    IN  IF m
        THEN [addr |-> PyStr(SubSeq(core, 1, Least(colon) - 1)),
              port |-> PyInt(DigitsToNat(SubSeq(core, Least(colon) + 1, Len(core))))]
        ELSE [addr |-> None, port |-> None]

\* __init__
SocketInstrument_init ==
    [connected_socket |-> None, connected_resource |-> None, num_instr_attached |-> 0]

\* detach(): socket.shutdown() is called without its argument, which raises
\* TypeError before close() and the assignments; the bare except catches it
SocketInstrument_detach(self) ==
    IF self.connected_socket /= None
    THEN [self |-> self, val |-> FALSE]
    ELSE [self |-> self, val |-> FALSE]

\* attach(resource); connects: the peer accepts the connection.
\* connect((None, None)) raises TypeError, a refused connection raises
\* OSError; the bare except catches both
SocketInstrument_attach(self, resource, connects) ==
    LET detached  == IF self.connected_socket /= None
                     THEN SocketInstrument_detach(self).self ELSE self
        addr_port == SocketInstrument_extract_addr_port(resource)
        socket    == [detached EXCEPT !.connected_socket = Socket(FALSE)]
    IN  IF addr_port /= None
        THEN IF socket.connected_socket /= None
             THEN IF addr_port.addr /= None /\ connects
                  THEN [self |-> [socket EXCEPT !.connected_socket = Socket(TRUE),
                                                !.connected_resource = PyStr(resource),
                                                !.num_instr_attached = @ + 1],
                        val |-> TRUE]
                  ELSE [self |-> socket, val |-> FALSE]
             ELSE [self |-> socket, val |-> FALSE]
        ELSE [self |-> detached, val |-> FALSE]

\* get_attached_status()
SocketInstrument_get_attached_status(self) == self.connected_socket /= None

\* writeex(cmd_bytes); sent: what socket.send does on a connected socket
\* ("all": returns len(cmd_bytes), "part": returns less, "error": raises).
\* send on a socket that never connected raises BrokenPipeError
SocketInstrument_writeex(self, cmd_bytes, sent) ==
    IF self.connected_socket /= None
    THEN IF self.connected_socket = Socket(FALSE)
         THEN [exc |-> "BrokenPipeError", val |-> FALSE, wire |-> <<>>]
         ELSE IF sent = "error"
         THEN [exc |-> "OSError", val |-> FALSE, wire |-> <<>>]
         ELSE [exc |-> NoExc, val |-> sent = "all", wire |-> <<cmd_bytes>>]
    ELSE [exc |-> NoExc, val |-> FALSE, wire |-> <<>>]

\* write(cmd): appends the newline cmd lacks
SocketInstrument_write(self, cmd, sent) ==
    SocketInstrument_writeex(self,
        IF Len(cmd) > 0 /\ cmd[Len(cmd)] = "\n" THEN cmd ELSE Append(cmd, "\n"), sent)

\* what the call of socket.recv leaves in the lines seen by the transport
RECV == <<"r", "e", "c", "v">>

\* str.rstrip(): without its trailing whitespace
RECURSIVE Rstrip(_)
Rstrip(s) ==
    IF s /= <<>> /\ s[Len(s)] \in {"\n", " "} THEN Rstrip(SubSeq(s, 1, Len(s) - 1)) ELSE s

\* queryex(cmd_bytes, delay_ms); received: what socket.recv does (the
\* bytes it returns, or the exception it raises)
SocketInstrument_queryex(self, cmd_bytes, sent, received) ==
    LET w == SocketInstrument_writeex(self, cmd_bytes, sent)
    IN  IF w.exc /= NoExc THEN [exc |-> w.exc, val |-> None, wire |-> w.wire]
        ELSE IF w.val
        THEN [exc |-> received.exc, val |-> received.val, wire |-> Append(w.wire, RECV)]
        ELSE [exc |-> NoExc, val |-> None, wire |-> w.wire]

\* query(cmd, delay_ms): appends the newline cmd lacks, strips the reply
SocketInstrument_query(self, cmd, sent, received) ==
    LET r == SocketInstrument_queryex(self,
                 IF Len(cmd) > 0 /\ cmd[Len(cmd)] = "\n" THEN cmd ELSE Append(cmd, "\n"),
                 sent, received)
    IN  IF r.exc = NoExc /\ r.val /= None
        THEN [r EXCEPT !.val = IF r.val.s /= <<>> /\ r.val.s[Len(r.val.s)] = "\n"
                                THEN PyStr(Rstrip(r.val.s)) ELSE @]
        ELSE r

Resources ==
    {<<"s", "c", "o", "p", "e">>,
     <<"1", ".", "2", ".", "3", ":", "5">>,
     <<"1", ".", "2", ".", "3", ".", "4", ":", "1", "2", "3", "4", "5", "6">>,
     <<"1", "0", ".", "0", ".", "0", ".", "7", ":", "5", "0", "2", "5">>,
     <<"t", "c", "p", ":", "/", "/", "1", "0", ".", "0", ".", "0", ".", "7", ":", "5", "0", "2", "5", "/">>}

Commands == {<<"*", "I", "D", "N", "?">>, <<"*", "R", "S", "T", "\n">>}

\* assigned keeps, for the properties, whether the most recent attach
\* returned True and whether a detach returned True since
SocketInit ==
    /\ prim = <<>>
    /\ assigned = [attach |-> FALSE, detach |-> FALSE]
    /\ scope = SocketInstrument_init
    /\ op = NoOp
    /\ ret = NoRet
    /\ calls = <<>>
    /\ nops = 0

SocketAttach ==
    /\ nops < MaxCalls
    /\ \E resource \in Resources, connects \in BOOLEAN :
        LET r == SocketInstrument_attach(scope, resource, connects)
        IN  /\ scope' = r.self
            /\ op' = [name |-> "attach", arg |-> PyStr(resource)]
            /\ ret' = [exc |-> NoExc, val |-> r.val]
            /\ assigned' = [attach |-> r.val, detach |-> FALSE]
            /\ calls' = <<>>
    /\ nops' = nops + 1
    /\ UNCHANGED prim

SocketDetach ==
    /\ nops < MaxCalls
    /\ LET r == SocketInstrument_detach(scope)
       IN  /\ scope' = r.self
           /\ op' = [name |-> "detach", arg |-> None]
           /\ ret' = [exc |-> NoExc, val |-> r.val]
           /\ assigned' = [assigned EXCEPT !.detach = @ \/ r.val]
           /\ calls' = <<>>
    /\ nops' = nops + 1
    /\ UNCHANGED prim

SocketGetAttachedStatus ==
    /\ nops < MaxCalls
    /\ op' = [name |-> "get_attached_status", arg |-> None]
    /\ ret' = [exc |-> NoExc, val |-> SocketInstrument_get_attached_status(scope)]
    /\ calls' = <<>>
    /\ nops' = nops + 1
    /\ UNCHANGED <<prim, assigned, scope>>

SocketWrite ==
    /\ nops < MaxCalls
    /\ \E cmd \in Commands, sent \in {"all", "part", "error"} :
        LET r == SocketInstrument_write(scope, cmd, sent)
        IN  /\ op' = [name |-> "write", arg |-> PyStr(cmd)]
            /\ ret' = [exc |-> r.exc, val |-> r.val]
            /\ calls' = r.wire
    /\ nops' = nops + 1
    /\ UNCHANGED <<prim, assigned, scope>>

\* what socket.recv may hand back
Received == Replies({PyStr(<<"O", "N", "\n">>), PyStr(<<"1", ".", "5">>)})

SocketQuery ==
    /\ nops < MaxCalls
    /\ \E cmd \in Commands, sent \in {"all", "part", "error"}, received \in Received :
        LET r == SocketInstrument_query(scope, cmd, sent, received)
        IN  /\ op' = [name |-> "query", arg |-> PyStr(cmd)]
            /\ ret' = [exc |-> r.exc, val |-> r.val]
            /\ calls' = r.wire
    /\ nops' = nops + 1
    /\ UNCHANGED <<prim, assigned, scope>>

SocketNext ==
    SocketAttach \/ SocketDetach \/ SocketGetAttachedStatus \/ SocketWrite \/ SocketQuery

SpecSocket == SocketInit /\ [][SocketNext]_vars

(***************************************************************************)
(* Properties of the primitives (SpecPrim)                                 *)
(***************************************************************************)
\* C1: a value assignment that fails validation raises and leaves the
\* primitive (index, current value, every remembered value) as it was.
C1_FailedAssignmentKeepsState ==
    [][(op'.name = "set_value" /\ ret'.exc /= NoExc) => prim' = prim]_vars

\* an out-of-range assignment was refused on a range whose active group is
\* not the first and holds an assigned, non-default value
C1_Witness ==
    /\ op.name = "set_value"
    /\ ret.exc = "Invalid value"
    /\ prim.kind = "IndexedFloatRange"
    /\ prim.index = 2
    /\ prim.value = 50000
    /\ op.arg = PyFloat(-110000)

\* the active index is one the index setter accepts
ValidIndex(p) ==
    IntIndex(p) /\ Inner(p).index >= 0 /\ Inner(p).index < GroupCount(p)

\* C2: for valid indices, a successful index assignment makes the current
\* value the value last successfully assigned under the now active index
\* (the group's default when there was none): index i, then j, then i
\* restores i's value.
C2_IndexSwitchRestoresAssigned ==
    [][(op'.name = "set_index" /\ ret'.exc = NoExc
           /\ ValidIndex(prim) /\ ValidIndex(prim'))
          => Inner(prim').value = assigned'[ActivePos(prim')]]_vars

\* C3: in every reachable state of an indexed primitive (with a valid
\* index) the remembered value of the active index equals the current value.
C3_RememberedIsCurrent ==
    (prim.kind \in IndexedKinds /\ ValidIndex(prim))
        => Remembered(prim)[ActivePos(prim)] = Inner(prim).value

\* C11: the index of every indexed primitive is an integer in
\* [0, groupCount) in every reachable state, the state right after
\* construction with any index argument included.
C11_IndexInRange ==
    prim.kind \in IndexedKinds => ValidIndex(prim)

\* the current value is one of the labels of group pos, or lies within the
\* (min, max) of group pos
ValueInGroup(p, pos) ==
    IF Inner(p).kind = "IndexedFloatRange"
    THEN /\ Inner(p).value >= Inner(p).range[pos][1]
         /\ Inner(p).value <= Inner(p).range[pos][2]
    ELSE \E q \in 1..Len(Inner(p).valid_list[pos]) :
            Inner(p).valid_list[pos][q] = Inner(p).value

\* C12: in every reachable state of every primitive whose index selects a
\* group, after any sequence of successful or failed index and value
\* assignments, the current value is a label of the active group, or lies
\* within the active group's (min, max).
C12_ValueInActiveGroup ==
    ValidIndex(prim) => ValueInGroup(prim, ActivePos(prim))

\* the number i is outside [0, groupCount) of p
OutOfRange(p, i) ==
    /\ i.t \in {"int", "float"}
    /\ (AsCount(i) < 0 \/ AsCount(i) >= GroupCount(p) * Unit)

\* C13: assigning an index outside [0, groupCount) fails with the
\* invalid-index error and leaves index, value and remembered values
\* unchanged; assigning the index that is already active succeeds and
\* leaves the value (and the index) unchanged.
C13_IndexAssignment ==
    [][op'.name = "set_index"
         => /\ OutOfRange(prim, op'.arg)
                => (ret'.exc = "Invalid index" /\ prim' = prim)
            /\ (ValidIndex(prim) /\ op'.arg = PyInt(prim.index))
                => (ret'.exc = NoExc /\ prim' = prim)]_vars

\* index 3 was refused on a list that is on its second group with an
\* assigned value
C13_Witness ==
    /\ op.name = "set_index"
    /\ op.arg = PyInt(3)
    /\ ret.exc = "Invalid index"
    /\ prim.kind = "IndexedStringList"
    /\ prim.index = 1
    /\ prim.value = <<"1", "0", "x">>

\* the (default, min, max) tuples a range primitive was constructed from
DeclaredRanges(p) ==
    IF p.kind = "IndexedFloatRange" THEN {IFR_RANGES}
    ELSE {<<IFR_RANGES[k]>> : k \in 1..Len(IFR_RANGES)}

\* C14: for every NumericRange (default, min, max), a FloatRange or the
\* active group of an IndexedFloatRange: assigning a number v with
\* min <= v <= max (min and max themselves included) succeeds and v becomes
\* the current value, assigning a number below min or above max fails with
\* the invalid-value error, and criteria returns (min, max).
C14_RangeBoundsInclusive ==
    [][(Inner(prim).kind = "IndexedFloatRange" /\ ValidIndex(prim))
         => \E decl \in DeclaredRanges(prim) :
              LET min == decl[ActivePos(prim)][2]
                  max == decl[ActivePos(prim)][3]
                  v   == AsCount(op'.arg)
              IN  /\ (op'.name = "set_value" /\ op'.arg.t \in {"int", "float"})
                      => IF min <= v /\ v <= max
                         THEN ret'.exc = NoExc /\ Inner(prim').value = v
                         ELSE ret'.exc = "Invalid value"
                  /\ op'.name = "get_criteria"
                      => ret'.val.s = <<min, max>>]_vars

\* the maximum of the first group was assigned and is the current value
C14_Witness ==
    /\ op.name = "set_value"
    /\ op.arg = PyFloat(5000000)
    /\ ret.exc = NoExc
    /\ prim.kind = "IndexedFloatRange"
    /\ prim.index = 0
    /\ prim.value = IFR_RANGES[1][3]

\* labels and numbers of the active group of a labeled numeric choice
ActiveLabels(p) == Inner(p).valid_list[ActivePos(p)]
ActiveFloats(p) == Inner(p).valid_float[ActivePos(p)]

\* p.value = v with a number v was the step taken
NumberAssigned(p, o) ==
    /\ Inner(p).kind = "IndexedFloatStringList"
    /\ o.name = "set_value"
    /\ o.arg.t \in {"int", "float"}

\* positions of the nonzero pairs (label, n) with |v - n| / |n| <= 1e-6,
\* that is |v - n| * 10^6 <= |n|; the numbers of the model are below 2^31,
\* so that a difference of 2000 counts or more is out of tolerance
Near(p, v) ==
    {k \in 1..Len(ActiveFloats(p)) :
        /\ ActiveFloats(p)[k] /= 0
        /\ Abs(v - ActiveFloats(p)[k]) < 2000
        /\ Abs(v - ActiveFloats(p)[k]) * RELATIVE_TOL_INV <= Abs(ActiveFloats(p)[k])}

\* positions of the zero-valued pairs
Zeros(p) == {k \in 1..Len(ActiveFloats(p)) : ActiveFloats(p)[k] = 0}

\* C15: for a labeled numeric choice and a pair (label, n) with n /= 0 of
\* its active group, assigning a number v with |v - n| / |n| <= 1e-6
\* succeeds and the value becomes that label; a number outside the
\* tolerance of every pair fails with the invalid-value error.
C15_RelativeTolerance ==
    [][NumberAssigned(prim, op')
         => LET v == AsCount(op'.arg)
            IN  /\ Near(prim, v) /= {}
                    => /\ ret'.exc = NoExc
                       /\ \E k \in Near(prim, v) :
                             Inner(prim').value = ActiveLabels(prim)[k]
                /\ (Near(prim, v) = {} /\ (v /= 0 \/ Zeros(prim) = {}))
                    => ret'.exc = "Invalid value"]_vars

\* 4.999998 was assigned to a group holding ("5", 5.0) and gave "5"
C15_Witness ==
    /\ op.name = "set_value"
    /\ op.arg = PyFloat(4999998)
    /\ ret.exc = NoExc
    /\ prim.kind = "IndexedFloatStringList"
    /\ prim.index = 1
    /\ prim.value = <<"5">>

\* C16: for a zero-valued pair of the active group, the number 0 matches
\* it (the assignment succeeds with its label) and a nonzero number never
\* matches it, whatever its magnitude.
C16_ZeroMatchesExactly ==
    [][(NumberAssigned(prim, op') /\ Zeros(prim) /= {})
         => /\ AsCount(op'.arg) = 0
                => /\ ret'.exc = NoExc
                   /\ \E k \in Zeros(prim) :
                         Inner(prim').value = ActiveLabels(prim)[k]
            /\ AsCount(op'.arg) /= 0
                => \/ ret'.exc = "Invalid value"
                   \/ /\ ret'.exc = NoExc
                      /\ \A k \in Zeros(prim) :
                            Inner(prim').value /= ActiveLabels(prim)[k]]_vars

\* 0.0 was assigned to a group with the pair ("0", 0.0) and gave "0"
C16_Witness ==
    /\ op.name = "set_value"
    /\ op.arg = PyFloat(0)
    /\ ret.exc = NoExc
    /\ prim.kind = "FloatStringList"
    /\ prim.list.value = <<"0">>

\* positions of the labels of the active group equal to s, ignoring case
LabelHits(p, s) ==
    {k \in 1..Len(ActiveLabels(p)) : Upper(ActiveLabels(p)[k]) = Upper(s)}

\* C17: for a string assigned to a labeled numeric choice, label matching
\* (ignoring case) comes first: a string equal to a label of the active
\* group selects that label, even when the string read as a number is the
\* number of another pair; only a string that matches no label is parsed
\* as a number and matched by tolerance.
C17_LabelBeforeNumber ==
    [][(Inner(prim).kind = "IndexedFloatStringList"
        /\ op'.name = "set_value" /\ IsStr(op'.arg))
         => /\ LabelHits(prim, op'.arg.s) /= {}
                => /\ ret'.exc = NoExc
                   /\ \E k \in LabelHits(prim, op'.arg.s) :
                         Inner(prim').value = ActiveLabels(prim)[k]
            /\ (LabelHits(prim, op'.arg.s) = {} /\ ret'.exc = NoExc)
                => LET num == ParseFloat(Upper(op'.arg.s))
                   IN  /\ num.exc = NoExc
                       /\ num.val.t = "float"
                       /\ \E k \in Near(prim, num.val.n)
                                  \cup {z \in Zeros(prim) : num.val.n = 0} :
                             Inner(prim').value = ActiveLabels(prim)[k]]_vars

\* "1" was assigned to the group (("1", 5.0), ("5", 1.0), ("2", 2.0)) and
\* gave the label "1", not the label "5" of the number 1.0
C17_Witness ==
    /\ op.name = "set_value"
    /\ op.arg = PyStr(<<"1">>)
    /\ ret.exc = NoExc
    /\ prim.kind = "IndexedFloatStringList"
    /\ prim.index = 2
    /\ prim.value = <<"1">>
    /\ ActiveFloats(prim)[2] = Unit

\* positions of the current value among the labels of the active group
Located(p) ==
    {k \in 1..Len(ActiveLabels(p)) : ActiveLabels(p)[k] = Inner(p).value}

\* p.value = ScaleShift with shift o.arg.n was the step taken
StepAssigned(p, o) ==
    /\ Inner(p).kind = "IndexedFloatStringList"
    /\ o.name = "set_value"
    /\ o.arg.t = "shift"

\* C18: for a labeled numeric choice whose current value is at position p
\* (counted from 0) of the N labels of the active group, a Relative Step
\* with shift s succeeds and the value becomes the label at position
\* min(max(p + s, 0), N - 1).
C18_StepClamps ==
    [][(StepAssigned(prim, op') /\ Located(prim) /= {})
         => \E k \in Located(prim) :
              LET N == Len(ActiveLabels(prim))
                  p == k - 1
                  s == op'.arg.n
                  q == IF p + s < 0 THEN 0
                       ELSE IF p + s > N - 1 THEN N - 1 ELSE p + s
              IN  /\ ret'.exc = NoExc
                  /\ Inner(prim').value = ActiveLabels(prim)[q + 1]]_vars

\* a step of -10 was clamped to the first label of the second group
C18_Witness ==
    /\ op.name = "set_value"
    /\ op.arg = PyShift(-10)
    /\ ret.exc = NoExc
    /\ prim.kind = "IndexedFloatStringList"
    /\ prim.index = 1
    /\ prim.value = ActiveLabels(prim)[1]

\* C20: a labeled numeric choice accepts only a string, a number or a
\* Relative Step: a value of any other type raises the value-type error
\* and leaves the state unchanged; a string choice rejects a value that is
\* not a string (5.0 for one) with an error, state unchanged.
C20_ValueTypes ==
    [][op'.name = "set_value"
         => /\ (Inner(prim).kind = "IndexedFloatStringList"
                 /\ ~IsStr(op'.arg) /\ ~IsNumber(op'.arg) /\ op'.arg.t /= "shift")
                => (ret'.exc = "Value must be str or float" /\ prim' = prim)
            /\ (Inner(prim).kind = "IndexedStringList" /\ ~IsStr(op'.arg))
                => (ret'.exc = "Value must be str" /\ prim' = prim)]_vars

\* 5.0 was refused by a string choice
C20_Witness ==
    /\ op.name = "set_value"
    /\ op.arg = PyFloat(5 * Unit)
    /\ ret.exc = "Value must be str"
    /\ prim.kind = "StringList"

(***************************************************************************)
(* Properties of the Relative Step on edited labels (SpecStep)             *)
(***************************************************************************)
\* C19: a Relative Step assignment fails with an error and leaves the
\* state unchanged whenever the current value cannot be located among the
\* labels of the active group.
C19_StepNeedsLocatedValue ==
    [][(StepAssigned(prim, op') /\ Located(prim) = {})
         => (ret'.exc = "Invalid value" /\ prim' = prim)]_vars

\* a step was refused on a group whose label of the current value had been
\* overwritten through criteria
C19_Witness ==
    /\ op.name = "set_value"
    /\ op.arg.t = "shift"
    /\ ret.exc = "Invalid value"
    /\ Inner(prim).kind = "IndexedFloatStringList"
    /\ Located(prim) = {}
    /\ nops = 1

(***************************************************************************)
(* Properties of channel lookup (SpecLookup)                               *)
(***************************************************************************)
\* C9: with N channels, for every n in 1..N each of n, "<n>", "C<n>",
\* "CH<n>", "CHAN<n>", "CHANNEL<n>" (any case) resolves through channel()
\* to the n-th channel added.
C9_LookupResolves ==
    \A n \in 1..Len(scope.channels) :
        (op.name = "channel" /\ op.arg \in IdsFor(n))
            => ret = [exc |-> NoExc, val |-> ChannelRef(n)]

\* the identifiers that name no channel of an oscilloscope with N channels
AbsentIds(N) ==
    UNION {IdsFor(n) : n \in (-1..0) \cup ((N + 1)..(MaxChannels + 2))}
    \cup MalformedIds

\* C10: with N channels, channel() returns None and never raises for an
\* out-of-range or malformed identifier.
C10_LookupAbsent ==
    (op.name = "channel" /\ op.arg \in AbsentIds(Len(scope.channels)))
        => ret = [exc |-> NoExc, val |-> None]

(***************************************************************************)
(* Properties of the instrument containers (Spec)                          *)
(***************************************************************************)
\* the primitive an access o is about, in oscilloscope s
Target(s, o) ==
    IF o.obj = "channel" THEN s.channels[o.ch][o.field] ELSE s[o.obj][o.field]

\* position of the channel's current attenuation among its choices (from 1)
AttenChoice(c) ==
    CHOOSE k \in 1..Len(c.atten.list.valid_list[1]) :
        c.atten.list.valid_list[1][k] = c.atten.list.value

\* C4: after a successful write of a channel's attenuation to its k-th
\* choice, the active group of that channel's scale and offset primitives
\* is group k (index k - 1).
C4_AttenSelectsGroup ==
    (op.name = "set" /\ op.obj = "channel" /\ op.field = "atten" /\ ret.exc = NoExc)
        => /\ scope.channels[op.ch].scale.index = AttenChoice(scope.channels[op.ch]) - 1
           /\ scope.channels[op.ch].offset.index = AttenChoice(scope.channels[op.ch]) - 1

\* the write accessors backed by a primitive: all but Trigger.holdoff
PrimitiveBacked(o) == o.name = "set" /\ ~(o.obj = "trigger" /\ o.field = "holdoff")

\* C5: when the value given to a write accessor of Channel, Timebase or
\* Trigger is one its primitive rejects, the accessor raises the primitive's
\* exception, issues no _handler call and leaves the instrument's settings
\* as they were.
C5_RejectedWriteNotDispatched ==
    [][(PrimitiveBacked(op') /\ Prim_set_value(Target(scope, op'), op'.arg).exc /= NoExc)
          => /\ ret'.exc = Prim_set_value(Target(scope, op'), op'.arg).exc
             /\ calls' = <<>>
             /\ scope' = scope]_vars
C5_Witness ==
    /\ op.name = "set" /\ op.obj = "timebase" /\ op.field = "delay"
    /\ op.arg = PyFloat(2) /\ op.reply.exc = NoExc
    /\ ret.exc = "Invalid value" /\ calls = <<>>

\* the HandlerClass member of each Channel property
ChannelReadClass ==
    [state |-> "ch_state", visible |-> "ch_visible", unit |-> "ch_unit",
     scale |-> "ch_scale", offset |-> "ch_offset", bandwidth |-> "ch_bw",
     coupling |-> "ch_coupling"]

\* C6: a read of a Channel property (state, visible, unit, scale, offset,
\* bandwidth, coupling) issues exactly one _handler read, of that property's
\* HandlerClass member and with the channel's number, and returns the value
\* then held by that property's primitive.
C6_ChannelReadDispatchesOwnClass ==
    (op.name = "get" /\ op.obj = "channel" /\ op.field \in DOMAIN ChannelReadClass)
        => /\ calls = <<Oscilloscope_handler_read(ChannelReadClass[op.field], <<PyInt(op.ch)>>)>>
           /\ ret.exc = NoExc => ret.val = Prim_value(Target(scope, op))

\* C7: every read of a Channel property (attenuation included) or of a
\* Timebase property issues a _handler read during the access.
C7_ReadsRoundTrip ==
    (op.name = "get" /\ op.obj \in {"channel", "timebase"})
        => \E i \in DOMAIN calls : ~calls[i].write

\* the HandlerClass member of each Trigger property backed by a primitive
TriggerReadClass ==
    [source |-> "trigger_source", type |-> "trigger_type",
     polarity |-> "trigger_polarity", level |-> "trigger_level",
     coupling |-> "trigger_coupling", noise_reject |-> "trigger_noise_reject"]

\* C8: a read of a Trigger property (source, type, polarity, level, coupling,
\* noise_reject) issues a _handler read of that property's HandlerClass
\* member before it returns.
C8_TriggerReadsDispatch ==
    (op.name = "get" /\ op.obj = "trigger" /\ op.field \in DOMAIN TriggerReadClass)
        => calls = <<Oscilloscope_handler_read(TriggerReadClass[op.field], <<>>)>>

\* position of the timebase's current scale among its choices (from 1)
ScaleChoice(tb) ==
    CHOOSE k \in 1..Len(tb.scale.list.valid_list[1]) :
        tb.scale.list.valid_list[1][k] = tb.scale.list.value

\* C21: after the timebase scale was successfully set or read to its k-th
\* choice, the active group of the delay primitive is group k (index
\* k - 1), whose bounds the next delay write is checked against.
C21_DelayFollowsScale ==
    (op.name \in {"get", "set"} /\ op.obj = "timebase" /\ op.field = "scale"
     /\ ret.exc = NoExc)
        => scope.timebase.delay.index = ScaleChoice(scope.timebase) - 1

ChannelWriteClass ==
    [state |-> "ch_state", visible |-> "ch_visible", unit |-> "ch_unit",
     scale |-> "ch_scale", offset |-> "ch_offset", bandwidth |-> "ch_bw",
     coupling |-> "ch_coupling", atten |-> "ch_atten"]

\* C23: every successful write through a Channel accessor issues exactly
\* one _handler write, of the accessor's HandlerClass member, whose
\* arguments are the channel's number and then the value as the primitive
\* stores it (the group's label, the validated number), not the raw input.
C23_ChannelWriteForwardsStored ==
    (op.name = "set" /\ op.obj = "channel" /\ ret.exc = NoExc)
        => calls = <<Oscilloscope_handler_write(ChannelWriteClass[op.field],
                        <<PyInt(op.ch), Prim_value(Target(scope, op))>>)>>

\* a scale was written as a number and the label of its pair was forwarded
C23_Witness ==
    /\ op.name = "set" /\ op.obj = "channel" /\ op.field = "scale"
    /\ IsNumber(op.arg)
    /\ ret.exc = NoExc
    /\ Len(calls) = 1
    /\ IsStr(calls[1].args[2])
    /\ calls[1].args[2] = Prim_value(scope.channels[op.ch].scale)

\* an access to trigger.holdoff or trigger.holdoffs
HoldoffAccess(o) ==
    /\ o.name \in {"get", "set"}
    /\ o.obj = "trigger"
    /\ o.field \in {"holdoff", "holdoffs"}

\* C24: trigger holdoff is not a primitive: a holdoff write forwards the
\* caller's value as given in one _handler write of trigger_holdoff, a
\* holdoff read and the holdoffs enumeration return exactly what _handler
\* returns (or raise what it raises), and none of the three changes a
\* primitive of the Trigger (or anything else of the instrument).
C24_HoldoffForwardedVerbatim ==
    [][HoldoffAccess(op')
         => /\ scope' = scope
            /\ ret'.exc = op'.reply.exc
            /\ op'.name = "set"
                => calls' = <<Oscilloscope_handler_write("trigger_holdoff", <<op'.arg>>)>>
            /\ op'.name = "get"
                => /\ calls' = <<Oscilloscope_handler_read(
                                   IF op'.field = "holdoff" THEN "trigger_holdoff"
                                   ELSE "trigger_holdoffs", <<>>)>>
                   /\ ret'.val = op'.reply.val]_vars

\* the number 0.001 was written as holdoff and forwarded as it was
C24_Witness ==
    /\ op.name = "set" /\ op.obj = "trigger" /\ op.field = "holdoff"
    /\ op.arg = PyFloat(1000)
    /\ ret.exc = NoExc
    /\ calls = <<Oscilloscope_handler_write("trigger_holdoff", <<PyFloat(1000)>>)>>

\* C25: an accessor call on one container changes only that container's
\* primitives: an access to channel i leaves every other channel, the
\* timebase and the trigger as they were and keeps the channel list (its
\* length, the names and numbers of its channels); an access to the
\* timebase or the trigger leaves the channels and the other part unchanged.
C25_AccessTouchesOwnContainer ==
    [][op'.name \in {"get", "set"}
         => /\ Len(scope'.channels) = Len(scope.channels)
            /\ \A j \in 1..Len(scope.channels) :
                 /\ scope'.channels[j].name = scope.channels[j].name
                 /\ scope'.channels[j].num = scope.channels[j].num
                 /\ (op'.obj /= "channel" \/ op'.ch /= j)
                      => scope'.channels[j] = scope.channels[j]
            /\ op'.obj /= "timebase" => scope'.timebase = scope.timebase
            /\ op'.obj /= "trigger" => scope'.trigger = scope.trigger]_vars

\* an offset was written to channel 1 while channel 2, built from the same
\* offset list, keeps its default
C25_Witness ==
    /\ op.name = "set" /\ op.obj = "channel" /\ op.field = "offset" /\ op.ch = 1
    /\ ret.exc = NoExc
    /\ scope.channels[1].offset.value = 1500000
    /\ scope.channels[2].offset.value = 0
    /\ Remembered(scope.channels[2].offset) = Remembered(Scope_init(ScopeChannels).channels[2].offset)

\* the number a string denotes, None when it denotes none
Denoted(s) ==
    IF ParseFloat(Upper(s)).exc = NoExc THEN ParseFloat(Upper(s)).val ELSE None

\* value v is one the parameter held by primitive p admits: a label of the
\* active group (ignoring case), a number within the active range, or a
\* number (or a string denoting one) within tolerance of a pair
Admits(p, v) ==
    CASE Inner(p).kind = "IndexedStringList" ->
            IsStr(v) /\ LabelHits(p, v.s) /= {}
      [] Inner(p).kind = "IndexedFloatRange" ->
            /\ v.t \in {"int", "float"}
            /\ AsCount(v) >= Inner(p).range[ActivePos(p)][1]
            /\ AsCount(v) <= Inner(p).range[ActivePos(p)][2]
      [] OTHER ->
            LET x == IF IsStr(v) THEN Denoted(v.s) ELSE v
            IN  \/ IsStr(v) /\ LabelHits(p, v.s) /= {}
                \/ /\ x.t \in {"int", "float"}
                   /\ (Near(p, AsCount(x)) /= {}
                       \/ (AsCount(x) = 0 /\ Zeros(p) /= {}))

\* the response a getter hands to its primitive: Channel.offset applies
\* float() to it first
Response(o) ==
    IF o.obj = "channel" /\ o.field = "offset" /\ IsStr(o.reply.val)
    THEN Denoted(o.reply.val.s)
    ELSE o.reply.val

\* C26: when the response of a _handler read is not a value the parameter
\* admits (a label outside the active group, a number out of range, an
\* absent response), the read accessor raises and the instrument's
\* primitives (current and remembered values) stay as they were.
C26_InvalidReadRefused ==
    [][(op'.name = "get" /\ op'.obj \in {"channel", "timebase"} /\ calls' /= <<>>
        /\ op'.reply.exc = NoExc
        /\ ~Admits(Target(scope, op'), Response(op')))
         => (ret'.exc /= NoExc /\ scope' = scope)]_vars

\* a scale read answered "ERR" was refused after a scale had been assigned
C26_Witness ==
    /\ op.name = "get" /\ op.obj = "channel" /\ op.field = "scale"
    /\ op.reply = Delivered(PyStr(<<"E", "R", "R">>))
    /\ ret.exc = "ValueError"
    /\ scope.channels[op.ch].scale.value = <<"1", "0", "0">>


(***************************************************************************)
(* Properties of the primitives (SpecPrim), continued                      *)
(***************************************************************************)
\* C27: a StringChoice built from a non-empty list L has, right after
\* construction, the value L[0] and the criteria L (same elements, same
\* order), and assigning L[0] to it succeeds.
C27_StringChoiceDefault ==
    [][(op = NoOp /\ prim.kind = "StringList")
         => \E k \in 1..Len(ISL_LISTS) :
              LET L == ISL_LISTS[k]
              IN  /\ StringList_criteria(prim) = L
                  /\ StringList_value(prim) = L[1]
                  /\ op'.name = "get_value" => ret' = [exc |-> NoExc, val |-> PyStr(L[1])]
                  /\ op'.name = "get_criteria"
                       => ret' = [exc |-> NoExc, val |-> [t |-> "list", s |-> L, n |-> 0]]
                  /\ (op'.name = "set_value" /\ op'.arg = PyStr(L[1]))
                       => (ret'.exc = NoExc /\ StringList_value(prim') = L[1])]_vars

\* the default "DC" of ["DC", "AC", "GND"] was assigned to the choice
C27_Witness ==
    /\ prim.kind = "StringList"
    /\ StringList_criteria(prim) = ISL_LISTS[1]
    /\ op.name = "set_value" /\ op.arg = PyStr(<<"D", "C">>)
    /\ ret.exc = NoExc
    /\ StringList_value(prim) = <<"D", "C">>


(***************************************************************************)
(* Properties of the instrument containers (Spec), continued               *)
(***************************************************************************)
\* primitive p holds what input v asks for: the label equal to v ignoring
\* case, the number v, or the label of a pair within tolerance of v
Took(p, v) ==
    CASE v.t = "shift" -> Located(p) /= {}
      [] Inner(p).kind = "IndexedFloatRange" ->
            v.t \in {"int", "float"} /\ Inner(p).value = AsCount(v)
      [] IsStr(v) /\ LabelHits(p, v.s) /= {} ->
            Upper(Inner(p).value) = Upper(v.s)
      [] OTHER ->
            LET x == IF IsStr(v) THEN Denoted(v.s) ELSE v
            IN  /\ Inner(p).kind = "IndexedFloatStringList"
                /\ x.t \in {"int", "float"}
                /\ Located(p) \cap (Near(p, AsCount(x))
                                     \cup IF AsCount(x) = 0 THEN Zeros(p) ELSE {}) /= {}

\* C28: a write accessor updates its primitive before it issues the
\* _handler write and does not roll back: when the _handler write raises,
\* the exception reaches the caller and the primitive already holds the
\* new value, the one that was handed to _handler.
C28_NoRollback ==
    [][(op'.name = "set" /\ op'.field /= "holdoff" /\ calls' /= <<>>
        /\ op'.reply.exc /= NoExc)
         => /\ ret'.exc = op'.reply.exc
            /\ Took(Target(scope', op'), op'.arg)
            /\ Prim_value(Target(scope', op')) = calls'[1].args[Len(calls'[1].args)]]_vars

\* channel 1 was switched from "ON" to "OFF" by a write whose _handler call
\* raised
C28_Witness ==
    /\ op.name = "set" /\ op.obj = "channel" /\ op.field = "state" /\ op.ch = 1
    /\ ret.exc /= NoExc /\ ret.exc = op.reply.exc
    /\ calls /= <<>>
    /\ scope.channels[1].state.list.value = <<"O", "F", "F">>
    /\ nops = 1


(***************************************************************************)
(* Properties of SocketInstrument (SpecSocket)                             *)
(***************************************************************************)
\* C29: get_attached_status() returns True only if the most recent attach()
\* returned True and no detach() returned True since; after an attach()
\* that returned False (invalid resource or refused connection) the
\* instrument reports not attached and a write returns False.
C29_AttachedStatus ==
    /\ (op.name = "get_attached_status" /\ ret.val)
         => (assigned.attach /\ ~assigned.detach)
    /\ (op.name = "attach" /\ ~ret.val)
         => ~SocketInstrument_get_attached_status(scope)
    /\ (op.name = "write" /\ ~assigned.attach)
         => (ret.exc = NoExc /\ ~ret.val)


(***************************************************************************)
(* Properties of the primitives (SpecPrim), continued                      *)
(***************************************************************************)
\* p.value = v with a str v was the step taken on a string choice or a
\* labeled numeric choice
StringAssigned(p, o) ==
    /\ Inner(p).kind \in {"IndexedStringList", "IndexedFloatStringList"}
    /\ o.name = "set_value"
    /\ IsStr(o.arg)

\* C30: a string assigned to a string choice or a labeled numeric choice is
\* matched against the labels of the active group ignoring case and the
\* value stored is the group's own spelling: when the string equals some
\* label ignoring case the assignment succeeds and the value is the first
\* such label in group order; when it equals none, the assignment fails
\* (for a labeled numeric choice: unless the string denotes a number that
\* a pair admits).
C30_CaseInsensitiveLabels ==
    [][StringAssigned(prim, op')
         => LET hits == LabelHits(prim, op'.arg.s)
            IN  /\ hits /= {}
                     => /\ ret'.exc = NoExc
                        /\ Inner(prim').value = ActiveLabels(prim)[Least(hits)]
                /\ (hits = {} /\ ~Admits(prim, op'.arg))
                     => (ret'.exc /= NoExc /\ prim' = prim)]_vars

\* "On" was assigned to the group ["Off", "on", "ON"] and the value is "on"
C30_Witness ==
    /\ Inner(prim).kind = "IndexedStringList"
    /\ ActiveLabels(prim) = ISL_LISTS[3]
    /\ op.name = "set_value" /\ op.arg = PyStr(<<"O", "n">>)
    /\ ret.exc = NoExc
    /\ Inner(prim).value = <<"o", "n">>


(***************************************************************************)
(* Properties of SDS2000._handler (SpecHandler), continued                 *)
(***************************************************************************)
\* C31: every command _handler writes is followed by the query "*OPC?"
\* before the call returns: in what the transport sees, a command is never
\* followed by another command, and a command is the last line only when
\* the call raised while sending it.
C31_CommandThenOpc ==
    op.name = "handler"
        => \A i \in 1..Len(calls) :
             ~calls[i].query
                => \/ i < Len(calls) /\ calls[i + 1] = OPC
                   \/ i = Len(calls) /\ ret.exc /= NoExc

\* a holdoff count was written while the hold type was TIME: the type
\* query, the type command, "*OPC?", the count command, "*OPC?"
C31_Witness ==
    /\ op.name = "handler" /\ op.hclass = "trigger_holdoff" /\ op.write
    /\ op.args = <<PyInt(5)>>
    /\ ret.exc = NoExc
    /\ calls = <<Command(":TRIG:EDGE:HOLD", None, None, TRUE),
                 Command(":TRIG:EDGE:HOLD EVEN", None, None, FALSE), OPC,
                 Command(":TRIG:EDGE:HLDEV", None, PyInt(5), FALSE), OPC>>

\* the strings __process_holdoff takes as a hold mode and as a start mode
HoldModes ==
    {<<"O", "F", "F">>, <<"T", "I", "M", "E">>, <<"E", "V", "E", "N">>,
     <<"E", "V", "E", "N", "T", "S">>}
StartModes ==
    {<<"L", "A", "S", "T", "_", "T", "R", "I", "G">>,
     <<"A", "C", "Q", "_", "S", "T", "A", "R", "T">>}

\* C32: a holdoff write whose value is a string naming a hold mode (OFF,
\* TIME, EVEN, EVENTS, in any case) sends ":TRIG:EDGE:HOLD " followed by
\* the upper-cased name; a string naming a start mode (LAST_TRIG,
\* ACQ_START) sends ":TRIG:EDGE:HST " followed by the upper-cased name; any
\* other string sends no command.
C32_HoldoffModeCommand ==
    (op.name = "handler" /\ op.hclass = "trigger_holdoff" /\ op.write
     /\ Len(op.args) >= 1 /\ IsStr(op.args[1]))
        => LET hu == Upper(op.args[1].s)
           IN  /\ hu \in HoldModes
                    => (calls /= <<>>
                        /\ calls[1] = Command(":TRIG:EDGE:HOLD", None, PyStr(hu), FALSE))
               /\ hu \in StartModes
                    => (calls /= <<>>
                        /\ calls[1] = Command(":TRIG:EDGE:HST", None, PyStr(hu), FALSE))
               /\ hu \notin HoldModes \cup StartModes => calls = <<>>


(***************************************************************************)
(* Properties of SDS2000.get_measure / set_measure (SpecMeasure)           *)
(***************************************************************************)
\* a measurement line: an integer in 1..12
ValidLine(line) == IsInt(line) /\ line.n >= 1 /\ line.n <= 12

\* C33: get_measure(line) and set_measure(line, ...) raise "Invalid line"
\* for every line that is not an integer in 1..12, and get_measure sends a
\* measurement query only for an integer line in 1..12.
C33_InvalidLineRefused ==
    op.name \in {"get_measure", "set_measure"}
        => /\ ~ValidLine(op.line) => ret.exc = "Invalid line"
           /\ (op.name = "get_measure" /\ calls /= <<>>) => ValidLine(op.line)


(***************************************************************************)
(* Properties of SDS2000._handler (SpecHandler), continued                 *)
(***************************************************************************)
\* the hold type query and the replies that name a hold type
HoldQuery == Command(":TRIG:EDGE:HOLD", None, None, TRUE)
EVENTS_TYPE == PyStr(<<"E", "V", "E", "N", "t", "s">>)
TIME_TYPE == PyStr(<<"T", "I", "M", "E">>)

\* the commands of calls, without the "*OPC?" queries
Settings == SelectSeq(calls, LAMBDA c : c /= OPC)

\* a holdoff call with a number (or a read) whose lines the link delivered
HoldoffCall(write) ==
    /\ op.name = "handler" /\ op.hclass = "trigger_holdoff" /\ op.write = write
    /\ ret.exc = NoExc

\* C34: a holdoff write with an integer count first queries the hold type,
\* sends ":TRIG:EDGE:HOLD EVEN" if and only if the reported type is not
\* events, and then sends the HLDEV count; with a float duration it sends
\* ":TRIG:EDGE:HOLD TIME" if and only if the reported type is not TIME and
\* then the HLDT duration.  A holdoff read returns the event count when
\* the type is events, the duration when it is TIME and "OFF" otherwise.
C34_HoldoffSequence ==
    /\ (HoldoffCall(TRUE) /\ Len(op.args) >= 1 /\ IsInt(op.args[1]))
         => Settings =
              <<HoldQuery>>
              \o (IF op.wire[1].val /= EVENTS_TYPE
                  THEN <<Command(":TRIG:EDGE:HOLD EVEN", None, None, FALSE)>> ELSE <<>>)
              \o <<Command(":TRIG:EDGE:HLDEV", None, op.args[1], FALSE)>>
    /\ (HoldoffCall(TRUE) /\ Len(op.args) >= 1 /\ op.args[1].t = "float")
         => Settings =
              <<HoldQuery>>
              \o (IF op.wire[1].val /= TIME_TYPE
                  THEN <<Command(":TRIG:EDGE:HOLD TIME", None, None, FALSE)>> ELSE <<>>)
              \o <<Command(":TRIG:EDGE:HLDT", None, op.args[1], FALSE)>>
    /\ HoldoffCall(FALSE)
         => CASE op.wire[1].val = EVENTS_TYPE ->
                   /\ calls = <<HoldQuery, Command(":TRIG:EDGE:HLDEV", None, None, TRUE)>>
                   /\ ret.val = op.wire[2].val
              [] op.wire[1].val = TIME_TYPE ->
                   /\ calls = <<HoldQuery, Command(":TRIG:EDGE:HLDT", None, None, TRUE)>>
                   /\ ret.val = op.wire[2].val
              [] OTHER ->
                   /\ calls = <<HoldQuery>>
                   /\ ret.val = PyStr(<<"O", "F", "F">>)

\* a duration was written while the hold type was events
C34_Witness ==
    /\ HoldoffCall(TRUE) /\ op.args = <<PyFloat(1000)>>
    /\ op.wire[1].val = PyStr(<<"O", "N">>)
    /\ Len(calls) = 5
    /\ calls[2] = Command(":TRIG:EDGE:HOLD TIME", None, None, FALSE)


(***************************************************************************)
(* Properties of SocketInstrument (SpecSocket), continued                  *)
(***************************************************************************)
\* C35: while the transport is not attached (no attach() has returned True,
\* or a detach() returned True since), write() returns False and query()
\* returns None, without raising and without a receive.
C35_UnattachedFailsQuietly ==
    (op.name \in {"write", "query"} /\ (~assigned.attach \/ assigned.detach))
        => /\ ret.exc = NoExc
           /\ op.name = "write" => ret.val = FALSE
           /\ op.name = "query" => ret.val = None
           /\ \A i \in 1..Len(calls) : calls[i] /= RECV


(***************************************************************************)
(* Properties of the primitives (SpecPrim), continued                      *)
(***************************************************************************)
\* C36: assigning to a primitive the value it reports succeeds and leaves
\* index, value and remembered values unchanged, and repeating a
\* successful assignment of a label, a number or a value in range leaves
\* the state the first one produced unchanged.
C36_ReassignIsNoOp ==
    [][/\ op'.name = "reassign" => (ret'.exc = NoExc /\ prim' = prim)
       /\ (op.name = "set_value" /\ ret.exc = NoExc /\ op.arg.t /= "shift"
           /\ op'.name = "set_value" /\ op'.arg = op.arg)
            => (ret'.exc = NoExc /\ prim' = prim)]_vars


(***************************************************************************)
(* Properties of Oscilloscope.reset (SpecReset)                            *)
(***************************************************************************)
\* the HandlerClass member behind each channel property reset refreshes
ResetClass ==
    [state |-> "ch_state", visible |-> "ch_visible", unit |-> "ch_unit",
     scale |-> "ch_scale", offset |-> "ch_offset", bandwidth |-> "ch_bw",
     coupling |-> "ch_coupling"]

\* what the instrument reports for channel property f, as the getter
\* hands it to the primitive: Channel.offset applies float() to it first
Reported(f, h) ==
    IF f = "offset" THEN Denoted(h.ch_offset.s) ELSE h[ResetClass[f]]

\* C37: a reset that completes has, for every channel, issued a _handler
\* read for state, visibility, unit, scale, offset, bandwidth and coupling
\* and an operation-complete query, each of those primitives then holds
\* the value the instrument reported, and "*RST" was sent before any read.
C37_ResetRefreshesChannels ==
    (op.name = "reset" /\ ret.exc = NoExc)
        => /\ calls[1] = RST_WRITE
           /\ \A k \in 1..Len(scope.channels) :
                /\ \A f \in DOMAIN ResetClass :
                     /\ \E i \in 2..Len(calls) :
                          calls[i] = Oscilloscope_handler_read(ResetClass[f],
                                         <<scope.channels[k].num>>)
                     /\ Took(scope.channels[k][f], Reported(f, op.hw[k]))
                /\ \E i \in 2..(Len(calls) - 1) :
                     /\ calls[i] = Oscilloscope_handler_read("ch_coupling",
                                       <<scope.channels[k].num>>)
                     /\ calls[i + 1] = OPC_QUERY

====
